---- MODULE Spec2Model ----
(***************************************************************************)
(* A model of lexopt's Parser (src/src/lib.rs): the argument sequence, the *)
(* cursor (State), the last emitted option, and the operations next(),     *)
(* value(), optional_value(), values() with its ValuesIter, raw_args() and *)
(* try_raw_args() with their RawArgs cursor.                               *)
(*                                                                         *)
(* An OsString is the sequence of its encoded bytes (Unix build: any byte  *)
(* string), a char is its code point, a String is a sequence of chars.     *)
(* Option<T> is a sequence of length 0 (None) or 1 (Some).                 *)
(***************************************************************************)
EXTENDS Integers, Sequences, FiniteSets, TLC

VARIABLES
    source,       \* Parser.source: the arguments not yet taken
    state,        \* Parser.state
    last_option,  \* Parser.last_option
    iter,         \* the live ValuesIter / RawArgs borrowing the parser, if any
    panic,        \* "" or the message of the panic that ended the program
    last,         \* history: the last operation called and what it returned
    prev,         \* history: the parser as it was before the last operation
    exhausted     \* history: next() returned Ok(None) before the last operation

vars == <<source, state, last_option, iter, panic, last, prev, exhausted>>

-----------------------------------------------------------------------------
(* Bounds and program constants *)

MaxArgs == 3

Dash == 45
EqSign == 61
ReplacementChar == 65533

-----------------------------------------------------------------------------
(* Byte strings and UTF-8, as std::str::from_utf8 validates it *)

At(b, i) == IF i >= 1 /\ i <= Len(b) THEN b[i] ELSE -1

\* bytes[n..]
From(b, n) == SubSeq(b, n + 1, Len(b))

\* bytes[..n]
Upto(b, n) == SubSeq(b, 1, n)

IsCont(x) == x >= 128 /\ x <= 191

\* the second byte of a three-byte sequence, by lead byte
Second3(b0, b1) ==
    IF b0 = 224 THEN b1 >= 160 /\ b1 <= 191
    ELSE IF b0 = 237 THEN b1 >= 128 /\ b1 <= 159
    ELSE IsCont(b1)

\* the second byte of a four-byte sequence, by lead byte
Second4(b0, b1) ==
    IF b0 = 240 THEN b1 >= 144 /\ b1 <= 191
    ELSE IF b0 = 244 THEN b1 >= 128 /\ b1 <= 143
    ELSE IsCont(b1)

\* length of the valid UTF-8 character that starts b, 0 if there is none
Utf8CharLen(b) ==
    LET b0 == At(b, 1)
        b1 == At(b, 2)
        b2 == At(b, 3)
        b3 == At(b, 4)
    IN  IF b0 < 0 THEN 0
        ELSE IF b0 < 128 THEN 1
        ELSE IF b0 >= 194 /\ b0 <= 223
            THEN (IF IsCont(b1) THEN 2 ELSE 0)
        ELSE IF b0 >= 224 /\ b0 <= 239
            THEN (IF Second3(b0, b1) /\ IsCont(b2) THEN 3 ELSE 0)
        ELSE IF b0 >= 240 /\ b0 <= 244
            THEN (IF Second4(b0, b1) /\ IsCont(b2) /\ IsCont(b3) THEN 4 ELSE 0)
        ELSE 0

\* the code point of the character of length n that starts b
CodePoint(b, n) ==
    IF n = 1 THEN b[1]
    ELSE IF n = 2 THEN (b[1] - 192) * 64 + (b[2] - 128)
    ELSE IF n = 3 THEN (b[1] - 224) * 4096 + (b[2] - 128) * 64 + (b[3] - 128)
    ELSE (b[1] - 240) * 262144 + (b[2] - 128) * 4096 + (b[3] - 128) * 64
         + (b[4] - 128)

\* char::len_utf8
len_utf8(ch) ==
    IF ch < 128 THEN 1 ELSE IF ch < 2048 THEN 2 ELSE IF ch < 65536 THEN 3 ELSE 4

\* Utf8Error::valid_up_to of from_utf8(b); Len(b) when b is valid
RECURSIVE valid_up_to(_)
valid_up_to(b) ==
    IF b = <<>> THEN 0
    ELSE LET n == Utf8CharLen(b)
         IN  IF n = 0 THEN 0 ELSE n + valid_up_to(From(b, n))

\* first_codepoint: [err |-> TRUE] or [err |-> FALSE, ch |-> Option<char>]
first_codepoint(bytes) ==
    LET window == IF Len(bytes) >= 4 THEN Upto(bytes, 4) ELSE bytes
        v == valid_up_to(window)
        text == IF v = Len(window) THEN window ELSE Upto(window, v)
    IN  IF v # Len(window) /\ v = 0
        THEN [err |-> TRUE, ch |-> <<>>]
        ELSE [err |-> FALSE,
              ch |-> IF text = <<>> THEN <<>>
                     ELSE <<CodePoint(text, Utf8CharLen(text))>>]

\* length of the maximal invalid prefix that from_utf8_lossy replaces by one
\* U+FFFD, for b that starts with no valid character
InvalidLen(b) ==
    LET b0 == At(b, 1)
        b1 == At(b, 2)
        b2 == At(b, 3)
    IN  IF b0 >= 224 /\ b0 <= 239
        THEN (IF Second3(b0, b1) THEN 2 ELSE 1)
        ELSE IF b0 >= 240 /\ b0 <= 244
        THEN (IF ~Second4(b0, b1) THEN 1 ELSE IF IsCont(b2) THEN 3 ELSE 2)
        ELSE 1

\* OsStr::to_string_lossy: the chars of b, invalid parts as U+FFFD
RECURSIVE to_string_lossy(_)
to_string_lossy(b) ==
    IF b = <<>> THEN <<>>
    ELSE LET n == Utf8CharLen(b)
         IN  IF n > 0
             THEN <<CodePoint(b, n)>> \o to_string_lossy(From(b, n))
             ELSE <<ReplacementChar>> \o to_string_lossy(From(b, InvalidLen(b)))

\* is_valid_boundary of slice_encoded_bytes, the build for platforms other
\* than Unix: index is 0, or the length, or directly before or directly
\* after a valid non-empty UTF-8 substring
is_valid_boundary(bytes, index) ==
    IF index = 0 \/ index = Len(bytes) THEN TRUE
    ELSE LET before == Upto(bytes, index)
             rest == From(bytes, index)
             after == IF Len(rest) >= 4 THEN Upto(rest, 4) ELSE rest
         IN  IF valid_up_to(after) # 0 THEN TRUE
             ELSE \E len \in 1..(IF index < 4 THEN index ELSE 4) :
                      valid_up_to(From(before, index - len)) = len

\* OsStr::slice_encoded_bytes(start..end) on the Unix build: &bytes[range]
slice_encoded_bytes(b, start, end) == SubSeq(b, start + 1, end)

\* position of the first byte equal to x, as Option<usize>
RECURSIVE position(_, _)
position(b, x) ==
    IF b = <<>> THEN <<>>
    ELSE IF b[1] = x THEN <<0>>
    ELSE LET r == position(Tail(b), x)
         IN  IF r = <<>> THEN <<>> ELSE <<r[1] + 1>>

starts_with(b, p) == Len(b) >= Len(p) /\ Upto(b, Len(p)) = p

-----------------------------------------------------------------------------
(* The arguments the model draws from: the shapes of tests::basic_fuzz's   *)
(* VOCABULARY, with 255 (0xFF) the undecodable byte of bad_string and      *)
(* 194 181 the two-byte character of tests::test_unicode.                  *)

Vocabulary ==
    { <<>>,                          \* ""
      <<45>>,                        \* "-"
      <<45, 45>>,                    \* "--"
      <<98>>,                        \* "b"
      <<45, 97, 98>>,                \* "-ab"
      <<45, 97, 255, 98>>,           \* "-a@b"
      <<45, 194, 181, 98>>,          \* "-µb"
      <<45, 97, 45>>,                \* "-a-"
      <<45, 97, 61, 98>>,            \* "-a=b"
      <<45, 97, 61>>,                \* "-a="
      <<45, 61, 98>>,                \* "-=b"
      <<45, 97, 61, 61, 98>>,        \* "-a==b"
      <<45, 45, 97>>,                \* "--a"
      <<45, 45, 255>>,               \* "--@"
      <<45, 45, 61>>,                \* "--="
      <<45, 45, 97, 61, 98, 61>> }   \* "--a=b="

Args == UNION { [1..n -> Vocabulary] : n \in 0..MaxArgs }

-----------------------------------------------------------------------------
(* State, LastOption, results *)

StNone == [tag |-> "None", arg |-> <<>>, pos |-> 0]
PendingValue(value) == [tag |-> "PendingValue", arg |-> value, pos |-> 0]
Shorts(arg, pos) == [tag |-> "Shorts", arg |-> arg, pos |-> pos]
FinishedOpts == [tag |-> "FinishedOpts", arg |-> <<>>, pos |-> 0]

LoNone == [tag |-> "None", ch |-> 0, name |-> <<>>]
LoShort(ch) == [tag |-> "Short", ch |-> ch, name |-> <<>>]
LoLong(name) == [tag |-> "Long", ch |-> 0, name |-> name]

\* What an operation returned. kind names the variant: Short (ch), Long (str,
\* the name's chars), Value / Ok / Some (str, the value's bytes), None,
\* UnexpectedValue (opt, str), MissingValue (opt), Iter (an iterator),
\* Slice (opt, the arguments of the slice).
Ret(kind, ch, str, opt) == [kind |-> kind, ch |-> ch, str |-> str, opt |-> opt]
RetNone == Ret("None", 0, <<>>, <<>>)
ArgShort(ch) == Ret("Short", ch, <<>>, <<>>)
ArgLong(name) == Ret("Long", 0, name, <<>>)
ArgValue(v) == Ret("Value", 0, v, <<>>)
UnexpectedValue(option, value) == Ret("UnexpectedValue", 0, value, <<option>>)
MissingValue(option) == Ret("MissingValue", 0, <<>>, option)

\* the outcome of a call: the parser after it, what it returned, and the
\* message of the panic it ended in ("" if it returned)
Returns(p, ret) == [p |-> p, ret |-> ret, panic |-> ""]
Panics(p, msg) == [p |-> p, ret |-> Ret("panic", 0, <<>>, <<>>), panic |-> msg]

-----------------------------------------------------------------------------
(* Parser: p is [source, state, last_option] *)

format_last_option(p) ==
    IF p.last_option.tag = "None" THEN <<>>
    ELSE IF p.last_option.tag = "Short" THEN << <<Dash, p.last_option.ch>> >>
    ELSE << p.last_option.name >>

has_pending(p) ==
    IF p.state.tag = "PendingValue" THEN TRUE
    ELSE IF p.state.tag = "Shorts" THEN p.state.pos < Len(p.state.arg)
    ELSE FALSE

\* raw_optional_value that does not put State::FinishedOpts back
raw_optional_value_forgets_finished(p) ==
    LET cleared == [p EXCEPT !.state = StNone]
        arg == p.state.arg
        pos == p.state.pos
    IN  IF p.state.tag = "PendingValue"
        THEN [p |-> cleared, val |-> <<[value |-> arg, had_eq_sign |-> TRUE]>>]
        ELSE IF p.state.tag = "Shorts" /\ pos < Len(arg)
        THEN LET had_eq_sign == arg[pos + 1] = EqSign
                 pos2 == IF had_eq_sign THEN pos + 1 ELSE pos
             IN  [p |-> cleared,
                  val |-> <<[value |-> slice_encoded_bytes(arg, pos2, Len(arg)),
                             had_eq_sign |-> had_eq_sign]>>]
        ELSE [p |-> cleared, val |-> <<>>]

\* raw_optional_value that gives the empty text of a cluster read to its end
raw_optional_value_empty_remainder(p) ==
    LET cleared == [p EXCEPT !.state = StNone]
        arg == p.state.arg
        pos == p.state.pos
    IN  IF p.state.tag = "PendingValue"
        THEN [p |-> cleared, val |-> <<[value |-> arg, had_eq_sign |-> TRUE]>>]
        ELSE IF p.state.tag = "Shorts"
        THEN IF pos >= Len(arg)
             THEN [p |-> cleared, val |-> <<[value |-> <<>>, had_eq_sign |-> FALSE]>>]
             ELSE LET had_eq_sign == arg[pos + 1] = EqSign
                      pos2 == IF had_eq_sign THEN pos + 1 ELSE pos
                  IN  [p |-> cleared,
                       val |-> <<[value |-> slice_encoded_bytes(arg, pos2, Len(arg)),
                                  had_eq_sign |-> had_eq_sign]>>]
        ELSE IF p.state.tag = "FinishedOpts"
        THEN [p |-> [p EXCEPT !.state = FinishedOpts], val |-> <<>>]
        ELSE [p |-> cleared, val |-> <<>>]

\* raw_optional_value that strips every "=" at the head of the remainder
raw_optional_value_strips_every_eq(p) ==
    LET cleared == [p EXCEPT !.state = StNone]
        arg == p.state.arg
        pos == p.state.pos
    IN  IF p.state.tag = "PendingValue"
        THEN [p |-> cleared, val |-> <<[value |-> arg, had_eq_sign |-> TRUE]>>]
        ELSE IF p.state.tag = "Shorts"
        THEN IF pos >= Len(arg)
             THEN [p |-> cleared, val |-> <<>>]
             ELSE LET had_eq_sign == arg[pos + 1] = EqSign
                      pos2 == CHOOSE k \in pos..Len(arg) :
                                  /\ \A i \in (pos + 1)..k : arg[i] = EqSign
                                  /\ k < Len(arg) => arg[k + 1] # EqSign
                  IN  [p |-> cleared,
                       val |-> <<[value |-> slice_encoded_bytes(arg, pos2, Len(arg)),
                                  had_eq_sign |-> had_eq_sign]>>]
        ELSE IF p.state.tag = "FinishedOpts"
        THEN [p |-> [p EXCEPT !.state = FinishedOpts], val |-> <<>>]
        ELSE [p |-> cleared, val |-> <<>>]

\* [p, val]: val is Option<(value, had_eq_sign)>
raw_optional_value(p) ==
    LET cleared == [p EXCEPT !.state = StNone]
        arg == p.state.arg
        pos == p.state.pos
    IN  IF p.state.tag = "PendingValue"
        THEN [p |-> cleared, val |-> <<[value |-> arg, had_eq_sign |-> TRUE]>>]
        ELSE IF p.state.tag = "Shorts"
        THEN IF pos >= Len(arg)
             THEN [p |-> cleared, val |-> <<>>]
             ELSE LET had_eq_sign == arg[pos + 1] = EqSign
                      pos2 == IF had_eq_sign THEN pos + 1 ELSE pos
                  IN  [p |-> cleared,
                       val |-> <<[value |-> slice_encoded_bytes(arg, pos2, Len(arg)),
                                  had_eq_sign |-> had_eq_sign]>>]
        ELSE IF p.state.tag = "FinishedOpts"
        THEN [p |-> [p EXCEPT !.state = FinishedOpts], val |-> <<>>]
        ELSE [p |-> cleared, val |-> <<>>]

\* [p, val]: val is Option<OsString>
optional_value(p) ==
    LET r == raw_optional_value(p)
    IN  [p |-> r.p, val |-> IF r.val = <<>> THEN <<>> ELSE <<r.val[1].value>>]

RECURSIVE Parser_next(_)

\* next() that reports the pending value and leaves it pending
next_PendingValue_keeps_state(p) ==
    LET option == format_last_option(p)
    IN  IF option = <<>>
        THEN Panics(p, "Should only have pending value after long option")
        ELSE Returns(p, UnexpectedValue(option[1], p.state.arg))

\* next() that names the option of a pending value without its dashes
next_PendingValue_strips_dashes(p) ==
    LET option == format_last_option(p)
        cleared == [p EXCEPT !.state = StNone]
    IN  IF option = <<>>
        THEN Panics(cleared, "Should only have pending value after long option")
        ELSE Returns(cleared, UnexpectedValue(From(option[1], 2), p.state.arg))

\* next(), State::PendingValue
next_PendingValue(p) ==
    LET option == format_last_option(p)
        cleared == [p EXCEPT !.state = StNone]
    IN  IF option = <<>>
        THEN Panics(cleared, "Should only have pending value after long option")
        ELSE Returns(cleared, UnexpectedValue(option[1], p.state.arg))

\* next() that goes on dropping every "--" once options are finished
next_FinishedOpts_drops_dashes(p) ==
    IF p.source = <<>> THEN Returns(p, RetNone)
    ELSE IF Head(p.source) = <<Dash, Dash>>
    THEN Parser_next([p EXCEPT !.source = Tail(p.source)])
    ELSE Returns([p EXCEPT !.source = Tail(p.source)], ArgValue(Head(p.source)))

\* next(), State::FinishedOpts
next_FinishedOpts(p) ==
    IF p.source = <<>> THEN Returns(p, RetNone)
    ELSE Returns([p EXCEPT !.source = Tail(p.source)], ArgValue(Head(p.source)))

\* next() that leaves the "=" at the head of the pending value
next_Long_keeps_eq(p, arg) ==
    LET ind == position(arg, EqSign)
        p1 == IF ind = <<>> THEN p
              ELSE [p EXCEPT !.state =
                       PendingValue(slice_encoded_bytes(arg, ind[1], Len(arg)))]
        arg1 == IF ind = <<>> THEN arg ELSE slice_encoded_bytes(arg, 0, ind[1])
        option == to_string_lossy(arg1)
    IN  Returns([p1 EXCEPT !.last_option = LoLong(option)], ArgLong(From(option, 2)))

\* next() that returns a long option without recording it as the last one
next_Long_keeps_last_option(p, arg) ==
    LET ind == position(arg, EqSign)
        p1 == IF ind = <<>> THEN p
              ELSE [p EXCEPT !.state =
                       PendingValue(slice_encoded_bytes(arg, ind[1] + 1, Len(arg)))]
        arg1 == IF ind = <<>> THEN arg ELSE slice_encoded_bytes(arg, 0, ind[1])
        option == to_string_lossy(arg1)
    IN  Returns(p1, ArgLong(From(option, 2)))

\* next(), the long option branch; arg has been taken from p.source
next_Long(p, arg) ==
    LET ind == position(arg, EqSign)
        p1 == IF ind = <<>> THEN p
              ELSE [p EXCEPT !.state =
                       PendingValue(slice_encoded_bytes(arg, ind[1] + 1, Len(arg)))]
        arg1 == IF ind = <<>> THEN arg ELSE slice_encoded_bytes(arg, 0, ind[1])
        option == to_string_lossy(arg1)
    IN  Returns([p1 EXCEPT !.last_option = LoLong(option)], ArgLong(From(option, 2)))

\* next() that takes "--" for the end of the command line
next_Idle_stops_at_dashes(p) ==
    IF p.state.tag # "None" THEN Panics(p, "unexpected state")
    ELSE IF p.source = <<>> THEN Returns(p, RetNone)
    ELSE LET arg == Head(p.source)
             p1 == [p EXCEPT !.source = Tail(p.source)]
         IN  IF arg = <<Dash, Dash>>
             THEN Returns([p1 EXCEPT !.state = FinishedOpts], RetNone)
             ELSE IF starts_with(arg, <<Dash, Dash>>)
             THEN next_Long(p1, arg)
             ELSE IF Len(arg) > 1 /\ arg[1] = Dash
             THEN Parser_next([p1 EXCEPT !.state = Shorts(arg, 1)])
             ELSE Returns(p1, ArgValue(arg))

\* next() that hands out "--" itself once it has marked the options finished
next_Idle_emits_dashes(p) ==
    IF p.state.tag # "None" THEN Panics(p, "unexpected state")
    ELSE IF p.source = <<>> THEN Returns(p, RetNone)
    ELSE LET arg == Head(p.source)
             p1 == [p EXCEPT !.source = Tail(p.source)]
         IN  IF arg = <<Dash, Dash>>
             THEN Returns([p1 EXCEPT !.state = FinishedOpts], ArgValue(arg))
             ELSE IF starts_with(arg, <<Dash, Dash>>)
             THEN next_Long(p1, arg)
             ELSE IF Len(arg) > 1 /\ arg[1] = Dash
             THEN Parser_next([p1 EXCEPT !.state = Shorts(arg, 1)])
             ELSE Returns(p1, ArgValue(arg))

\* next() that takes a lone "-" for the start of a cluster
next_Idle_dash_starts_cluster(p) ==
    IF p.state.tag # "None" THEN Panics(p, "unexpected state")
    ELSE IF p.source = <<>> THEN Returns(p, RetNone)
    ELSE LET arg == Head(p.source)
             p1 == [p EXCEPT !.source = Tail(p.source)]
         IN  IF arg = <<Dash, Dash>>
             THEN Parser_next([p1 EXCEPT !.state = FinishedOpts])
             ELSE IF starts_with(arg, <<Dash, Dash>>)
             THEN next_Long(p1, arg)
             ELSE IF Len(arg) >= 1 /\ arg[1] = Dash
             THEN Parser_next([p1 EXCEPT !.state = Shorts(arg, 1)])
             ELSE Returns(p1, ArgValue(arg))

\* next() that forgets the last option when it returns a Value
next_Idle_value_forgets_option(p) ==
    IF p.state.tag # "None" THEN Panics(p, "unexpected state")
    ELSE IF p.source = <<>> THEN Returns(p, RetNone)
    ELSE LET arg == Head(p.source)
             p1 == [p EXCEPT !.source = Tail(p.source)]
         IN  IF arg = <<Dash, Dash>>
             THEN Parser_next([p1 EXCEPT !.state = FinishedOpts])
             ELSE IF starts_with(arg, <<Dash, Dash>>)
             THEN next_Long(p1, arg)
             ELSE IF Len(arg) > 1 /\ arg[1] = Dash
             THEN Parser_next([p1 EXCEPT !.state = Shorts(arg, 1)])
             ELSE Returns([p1 EXCEPT !.last_option = LoNone], ArgValue(arg))

\* next(), from the second match on: classify the next argument
next_Idle(p) ==
    IF p.state.tag # "None" THEN Panics(p, "unexpected state")
    ELSE IF p.source = <<>> THEN Returns(p, RetNone)
    ELSE LET arg == Head(p.source)
             p1 == [p EXCEPT !.source = Tail(p.source)]
         IN  IF arg = <<Dash, Dash>>
             THEN Parser_next([p1 EXCEPT !.state = FinishedOpts])
             ELSE IF starts_with(arg, <<Dash, Dash>>)
             THEN next_Long(p1, arg)
             ELSE IF Len(arg) > 1 /\ arg[1] = Dash
             THEN Parser_next([p1 EXCEPT !.state = Shorts(arg, 1)])
             ELSE Returns(p1, ArgValue(arg))

\* next() that does not leave the cluster at an undecodable byte
next_Shorts_stays_at_invalid(p) ==
    LET arg == p.state.arg
        pos == p.state.pos
        fc == first_codepoint(From(arg, pos))
    IN  IF pos > Len(arg) THEN Panics(p, "range start index out of range")
        ELSE IF fc.err
        THEN Returns([p EXCEPT !.last_option = LoShort(ReplacementChar)],
                     ArgShort(ReplacementChar))
        ELSE IF fc.ch = <<>>
        THEN next_Idle([p EXCEPT !.state = StNone])
        ELSE IF fc.ch[1] = EqSign /\ pos > 1
        THEN LET option == format_last_option(p)
                 ov == optional_value(p)
             IN  IF option = <<>> \/ ov.val = <<>>
                 THEN Panics(ov.p, "unwrap on None")
                 ELSE Returns(ov.p, UnexpectedValue(option[1], ov.val[1]))
        ELSE Returns([p EXCEPT !.state = Shorts(arg, pos + len_utf8(fc.ch[1])),
                               !.last_option = LoShort(fc.ch[1])],
                     ArgShort(fc.ch[1]))

\* next() that takes "=" for a value separator directly after the dash too
next_Shorts_eq_at_start(p) ==
    LET arg == p.state.arg
        pos == p.state.pos
        fc == first_codepoint(From(arg, pos))
    IN  IF pos > Len(arg) THEN Panics(p, "range start index out of range")
        ELSE IF fc.err
        THEN Returns([p EXCEPT !.state = StNone,
                               !.last_option = LoShort(ReplacementChar)],
                     ArgShort(ReplacementChar))
        ELSE IF fc.ch = <<>>
        THEN next_Idle([p EXCEPT !.state = StNone])
        ELSE IF fc.ch[1] = EqSign /\ pos >= 1
        THEN LET option == format_last_option(p)
                 ov == optional_value(p)
             IN  IF option = <<>> \/ ov.val = <<>>
                 THEN Panics(ov.p, "unwrap on None")
                 ELSE Returns(ov.p, UnexpectedValue(option[1], ov.val[1]))
        ELSE Returns([p EXCEPT !.state = Shorts(arg, pos + len_utf8(fc.ch[1])),
                               !.last_option = LoShort(fc.ch[1])],
                     ArgShort(fc.ch[1]))

\* next() that advances by one byte for every character
next_Shorts_advances_one_byte(p) ==
    LET arg == p.state.arg
        pos == p.state.pos
        fc == first_codepoint(From(arg, pos))
    IN  IF pos > Len(arg) THEN Panics(p, "range start index out of range")
        ELSE IF fc.err
        THEN Returns([p EXCEPT !.state = StNone,
                               !.last_option = LoShort(ReplacementChar)],
                     ArgShort(ReplacementChar))
        ELSE IF fc.ch = <<>>
        THEN next_Idle([p EXCEPT !.state = StNone])
        ELSE IF fc.ch[1] = EqSign /\ pos > 1
        THEN LET option == format_last_option(p)
                 ov == optional_value(p)
             IN  IF option = <<>> \/ ov.val = <<>>
                 THEN Panics(ov.p, "unwrap on None")
                 ELSE Returns(ov.p, UnexpectedValue(option[1], ov.val[1]))
        ELSE Returns([p EXCEPT !.state = Shorts(arg, pos + 1),
                               !.last_option = LoShort(fc.ch[1])],
                     ArgShort(fc.ch[1]))

\* next() that takes "=" for a flag wherever it stands in the cluster
next_Shorts_eq_is_flag(p) ==
    LET arg == p.state.arg
        pos == p.state.pos
        fc == first_codepoint(From(arg, pos))
    IN  IF pos > Len(arg) THEN Panics(p, "range start index out of range")
        ELSE IF fc.err
        THEN Returns([p EXCEPT !.state = StNone,
                               !.last_option = LoShort(ReplacementChar)],
                     ArgShort(ReplacementChar))
        ELSE IF fc.ch = <<>>
        THEN next_Idle([p EXCEPT !.state = StNone])
        ELSE Returns([p EXCEPT !.state = Shorts(arg, pos + len_utf8(fc.ch[1])),
                               !.last_option = LoShort(fc.ch[1])],
                     ArgShort(fc.ch[1]))

\* next() that steps over the undecodable bytes and stays in the cluster
next_Shorts_skips_malformed_unit(p) ==
    LET arg == p.state.arg
        pos == p.state.pos
        fc == first_codepoint(From(arg, pos))
    IN  IF pos > Len(arg) THEN Panics(p, "range start index out of range")
        ELSE IF fc.err
        THEN Returns([p EXCEPT !.state = Shorts(arg, pos + InvalidLen(From(arg, pos))),
                               !.last_option = LoShort(ReplacementChar)],
                     ArgShort(ReplacementChar))
        ELSE IF fc.ch = <<>>
        THEN next_Idle([p EXCEPT !.state = StNone])
        ELSE IF fc.ch[1] = EqSign /\ pos > 1
        THEN LET option == format_last_option(p)
                 ov == optional_value(p)
             IN  IF option = <<>> \/ ov.val = <<>>
                 THEN Panics(ov.p, "unwrap on None")
                 ELSE Returns(ov.p, UnexpectedValue(option[1], ov.val[1]))
        ELSE Returns([p EXCEPT !.state = Shorts(arg, pos + len_utf8(fc.ch[1])),
                               !.last_option = LoShort(fc.ch[1])],
                     ArgShort(fc.ch[1]))

\* next() that leaves the cluster at an undecodable byte without a token
next_Shorts_drops_invalid_silently(p) ==
    LET arg == p.state.arg
        pos == p.state.pos
        fc == first_codepoint(From(arg, pos))
    IN  IF pos > Len(arg) THEN Panics(p, "range start index out of range")
        ELSE IF fc.err
        THEN next_Idle([p EXCEPT !.state = StNone])
        ELSE IF fc.ch = <<>>
        THEN next_Idle([p EXCEPT !.state = StNone])
        ELSE IF fc.ch[1] = EqSign /\ pos > 1
        THEN LET option == format_last_option(p)
                 ov == optional_value(p)
             IN  IF option = <<>> \/ ov.val = <<>>
                 THEN Panics(ov.p, "unwrap on None")
                 ELSE Returns(ov.p, UnexpectedValue(option[1], ov.val[1]))
        ELSE Returns([p EXCEPT !.state = Shorts(arg, pos + len_utf8(fc.ch[1])),
                               !.last_option = LoShort(fc.ch[1])],
                     ArgShort(fc.ch[1]))

\* next(), State::Shorts
next_Shorts(p) ==
    LET arg == p.state.arg
        pos == p.state.pos
        fc == first_codepoint(From(arg, pos))
    IN  IF pos > Len(arg) THEN Panics(p, "range start index out of range")
        ELSE IF fc.err
        THEN Returns([p EXCEPT !.state = StNone,
                               !.last_option = LoShort(ReplacementChar)],
                     ArgShort(ReplacementChar))
        ELSE IF fc.ch = <<>>
        THEN next_Idle([p EXCEPT !.state = StNone])
        ELSE IF fc.ch[1] = EqSign /\ pos > 1
        THEN LET option == format_last_option(p)
                 ov == optional_value(p)
             IN  IF option = <<>> \/ ov.val = <<>>
                 THEN Panics(ov.p, "unwrap on None")
                 ELSE Returns(ov.p, UnexpectedValue(option[1], ov.val[1]))
        ELSE Returns([p EXCEPT !.state = Shorts(arg, pos + len_utf8(fc.ch[1])),
                               !.last_option = LoShort(fc.ch[1])],
                     ArgShort(fc.ch[1]))

\* Parser::next
Parser_next(p) ==
    IF p.state.tag = "PendingValue" THEN next_PendingValue(p)
    ELSE IF p.state.tag = "Shorts" THEN next_Shorts(p)
    ELSE IF p.state.tag = "FinishedOpts" THEN next_FinishedOpts(p)
    ELSE next_Idle(p)

\* value() that prefers the next argument to what is pending
Parser_value_takes_source_first(p) ==
    LET ov == optional_value(p)
    IN  IF p.source # <<>>
        THEN Returns([p EXCEPT !.source = Tail(p.source)],
                     Ret("Ok", 0, Head(p.source), <<>>))
        ELSE IF ov.val # <<>> THEN Returns(ov.p, Ret("Ok", 0, ov.val[1], <<>>))
        ELSE Returns(ov.p, MissingValue(format_last_option(ov.p)))

\* value() that gives up when nothing is joined to the option
Parser_value_joined_only(p) ==
    LET ov == optional_value(p)
    IN  IF ov.val # <<>> THEN Returns(ov.p, Ret("Ok", 0, ov.val[1], <<>>))
        ELSE Returns(ov.p, MissingValue(format_last_option(ov.p)))

\* value() that takes a "--" it hands out for the end of the options
Parser_value_interprets_dashes(p) ==
    LET ov == optional_value(p)
    IN  IF ov.val # <<>> THEN Returns(ov.p, Ret("Ok", 0, ov.val[1], <<>>))
        ELSE IF ov.p.source # <<>>
        THEN Returns([ov.p EXCEPT !.source = Tail(ov.p.source),
                                  !.state = IF Head(ov.p.source) = <<Dash, Dash>>
                                            THEN FinishedOpts ELSE ov.p.state],
                     Ret("Ok", 0, Head(ov.p.source), <<>>))
        ELSE Returns(ov.p, MissingValue(format_last_option(ov.p)))

\* value() that refuses an element that looks like an option
Parser_value_stops_at_option(p) ==
    LET ov == optional_value(p)
    IN  IF ov.val # <<>> THEN Returns(ov.p, Ret("Ok", 0, ov.val[1], <<>>))
        ELSE IF ov.p.source # <<>> /\ At(Head(ov.p.source), 1) # Dash
        THEN Returns([ov.p EXCEPT !.source = Tail(ov.p.source)],
                     Ret("Ok", 0, Head(ov.p.source), <<>>))
        ELSE Returns(ov.p, MissingValue(format_last_option(ov.p)))

\* value() that returns the next element and leaves it in the sequence
Parser_value_keeps_element(p) ==
    LET ov == optional_value(p)
    IN  IF ov.val # <<>> THEN Returns(ov.p, Ret("Ok", 0, ov.val[1], <<>>))
        ELSE IF ov.p.source # <<>>
        THEN Returns(ov.p, Ret("Ok", 0, Head(ov.p.source), <<>>))
        ELSE Returns(ov.p, MissingValue(format_last_option(ov.p)))

\* value() that gives nothing as long as next() has returned no option
Parser_value_needs_option(p) ==
    LET ov == optional_value(p)
    IN  IF p.last_option.tag = "None"
        THEN Returns(ov.p, MissingValue(format_last_option(ov.p)))
        ELSE IF ov.val # <<>> THEN Returns(ov.p, Ret("Ok", 0, ov.val[1], <<>>))
        ELSE IF ov.p.source # <<>>
        THEN Returns([ov.p EXCEPT !.source = Tail(ov.p.source)],
                     Ret("Ok", 0, Head(ov.p.source), <<>>))
        ELSE Returns(ov.p, MissingValue(format_last_option(ov.p)))

\* Parser::value
Parser_value(p) ==
    LET ov == optional_value(p)
    IN  IF ov.val # <<>> THEN Returns(ov.p, Ret("Ok", 0, ov.val[1], <<>>))
        ELSE IF ov.p.source # <<>>
        THEN Returns([ov.p EXCEPT !.source = Tail(ov.p.source)],
                     Ret("Ok", 0, Head(ov.p.source), <<>>))
        ELSE Returns(ov.p, MissingValue(format_last_option(ov.p)))

\* Parser::optional_value, as a call
Parser_optional_value(p) ==
    LET ov == optional_value(p)
    IN  IF ov.val # <<>> THEN Returns(ov.p, Ret("Some", 0, ov.val[1], <<>>))
        ELSE Returns(ov.p, RetNone)

\* next_is_normal that counts a lone "-" among the options
next_is_normal_refuses_dash(p) ==
    IF has_pending(p)
    THEN [val |-> FALSE, panic |-> "assertion failed: not has_pending"]
    ELSE IF p.source = <<>> THEN [val |-> FALSE, panic |-> ""]
    ELSE IF p.state.tag = "FinishedOpts" THEN [val |-> TRUE, panic |-> ""]
    ELSE [val |-> At(Head(p.source), 1) # Dash, panic |-> ""]

\* next_is_normal that judges an element by its shape after "--" too
next_is_normal_ignores_finished(p) ==
    IF has_pending(p)
    THEN [val |-> FALSE, panic |-> "assertion failed: not has_pending"]
    ELSE IF p.source = <<>> THEN [val |-> FALSE, panic |-> ""]
    ELSE IF Head(p.source) = <<Dash>> THEN [val |-> TRUE, panic |-> ""]
    ELSE [val |-> At(Head(p.source), 1) # Dash, panic |-> ""]

\* next_is_normal that counts "--" among the values
next_is_normal_accepts_dashes(p) ==
    IF has_pending(p)
    THEN [val |-> FALSE, panic |-> "assertion failed: not has_pending"]
    ELSE IF p.source = <<>> THEN [val |-> FALSE, panic |-> ""]
    ELSE IF p.state.tag = "FinishedOpts" THEN [val |-> TRUE, panic |-> ""]
    ELSE IF Head(p.source) = <<Dash>> THEN [val |-> TRUE, panic |-> ""]
    ELSE IF Head(p.source) = <<Dash, Dash>> THEN [val |-> TRUE, panic |-> ""]
    ELSE [val |-> At(Head(p.source), 1) # Dash, panic |-> ""]

\* Parser::next_is_normal: [val, panic]
next_is_normal(p) ==
    IF has_pending(p)
    THEN [val |-> FALSE, panic |-> "assertion failed: not has_pending"]
    ELSE IF p.source = <<>> THEN [val |-> FALSE, panic |-> ""]
    ELSE IF p.state.tag = "FinishedOpts" THEN [val |-> TRUE, panic |-> ""]
    ELSE IF Head(p.source) = <<Dash>> THEN [val |-> TRUE, panic |-> ""]
    ELSE [val |-> At(Head(p.source), 1) # Dash, panic |-> ""]

\* Parser::next_if_normal: [p, val, panic], val is Option<OsString>
next_if_normal(p) ==
    LET n == next_is_normal(p)
    IN  IF n.val
        THEN [p |-> [p EXCEPT !.source = Tail(p.source)],
              val |-> <<Head(p.source)>>, panic |-> n.panic]
        ELSE [p |-> p, val |-> <<>>, panic |-> n.panic]

\* values() that takes what is pending as soon as it is called
Parser_values_takes_pending(p) ==
    IF has_pending(p) THEN Returns(optional_value(p).p, Ret("Iter", 0, <<>>, <<>>))
    ELSE LET n == next_is_normal(p)
         IN  IF n.panic # "" THEN Panics(p, n.panic)
             ELSE IF n.val THEN Returns(p, Ret("Iter", 0, <<>>, <<>>))
             ELSE Returns(p, MissingValue(format_last_option(p)))

\* values() that succeeds whenever an element is left, whatever its shape
Parser_values_any_element(p) ==
    IF has_pending(p) THEN Returns(p, Ret("Iter", 0, <<>>, <<>>))
    ELSE IF p.source # <<>> THEN Returns(p, Ret("Iter", 0, <<>>, <<>>))
    ELSE Returns(p, MissingValue(format_last_option(p)))

\* values() that throws away the element it refuses
Parser_values_drops_refused(p) ==
    IF has_pending(p) THEN Returns(p, Ret("Iter", 0, <<>>, <<>>))
    ELSE LET n == next_is_normal(p)
         IN  IF n.panic # "" THEN Panics(p, n.panic)
             ELSE IF n.val THEN Returns(p, Ret("Iter", 0, <<>>, <<>>))
             ELSE Returns([p EXCEPT !.source = IF p.source = <<>> THEN <<>>
                                              ELSE Tail(p.source)],
                          MissingValue(format_last_option(p)))

\* Parser::values: Ok(ValuesIter) or Err(MissingValue)
Parser_values(p) ==
    IF has_pending(p) THEN Returns(p, Ret("Iter", 0, <<>>, <<>>))
    ELSE LET n == next_is_normal(p)
         IN  IF n.panic # "" THEN Panics(p, n.panic)
             ELSE IF n.val THEN Returns(p, Ret("Iter", 0, <<>>, <<>>))
             ELSE Returns(p, MissingValue(format_last_option(p)))

\* raw_args() that reports the leftover and leaves it pending
Parser_raw_args_keeps_leftover(p) ==
    LET ov == optional_value(p)
        option == format_last_option(ov.p)
    IN  IF ov.val # <<>>
        THEN IF option = <<>>
             THEN Panics(p, "unwrap on None")
             ELSE Returns(p, UnexpectedValue(option[1], ov.val[1]))
        ELSE Returns(ov.p, Ret("Iter", 0, <<>>, <<>>))

\* Parser::raw_args
Parser_raw_args(p) ==
    LET ov == optional_value(p)
        option == format_last_option(ov.p)
    IN  IF ov.val # <<>>
        THEN IF option = <<>>
             THEN Panics(ov.p, "unwrap on None")
             ELSE Returns(ov.p, UnexpectedValue(option[1], ov.val[1]))
        ELSE Returns(ov.p, Ret("Iter", 0, <<>>, <<>>))

\* try_raw_args() that refuses only for the value of a long option
Parser_try_raw_args_long_only(p) ==
    IF p.state.tag = "PendingValue" THEN Returns(p, RetNone)
    ELSE Returns(p, Ret("Iter", 0, <<>>, <<>>))

\* Parser::try_raw_args
Parser_try_raw_args(p) ==
    IF has_pending(p) THEN Returns(p, RetNone)
    ELSE Returns(p, Ret("Iter", 0, <<>>, <<>>))

-----------------------------------------------------------------------------
(* ValuesIter and RawArgs: it is [kind, took_first, parser] *)

NoIter == [kind |-> "none", took_first |-> FALSE, parser |-> FALSE]
NewValuesIter == [kind |-> "values", took_first |-> FALSE, parser |-> TRUE]
NewRawArgs == [kind |-> "raw", took_first |-> FALSE, parser |-> TRUE]

\* ValuesIter::next that goes on after a value joined with "="
ValuesIter_next_ignores_eq(it, p) ==
    IF ~it.parser
    THEN [p |-> p, it |-> it, ret |-> RetNone, panic |-> ""]
    ELSE IF it.took_first
    THEN LET r == next_if_normal(p)
         IN  [p |-> r.p, it |-> it,
              ret |-> IF r.val = <<>> THEN RetNone ELSE Ret("Some", 0, r.val[1], <<>>),
              panic |-> r.panic]
    ELSE LET ov == raw_optional_value(p)
         IN  IF ov.val # <<>>
             THEN [p |-> ov.p,
                   it |-> [it EXCEPT !.took_first = TRUE],
                   ret |-> Ret("Some", 0, ov.val[1].value, <<>>),
                   panic |-> ""]
             ELSE LET r == next_if_normal(ov.p)
                  IN  IF r.panic # ""
                      THEN [p |-> r.p, it |-> it, ret |-> RetNone, panic |-> r.panic]
                      ELSE IF r.val = <<>>
                      THEN [p |-> r.p, it |-> it, ret |-> RetNone,
                            panic |-> "ValuesIter must yield at least one value"]
                      ELSE [p |-> r.p, it |-> [it EXCEPT !.took_first = TRUE],
                            ret |-> Ret("Some", 0, r.val[1], <<>>), panic |-> ""]

\* ValuesIter::next: [p, it, ret, panic]
ValuesIter_next(it, p) ==
    IF ~it.parser
    THEN [p |-> p, it |-> it, ret |-> RetNone, panic |-> ""]
    ELSE IF it.took_first
    THEN LET r == next_if_normal(p)
         IN  [p |-> r.p, it |-> it,
              ret |-> IF r.val = <<>> THEN RetNone ELSE Ret("Some", 0, r.val[1], <<>>),
              panic |-> r.panic]
    ELSE LET ov == raw_optional_value(p)
         IN  IF ov.val # <<>>
             THEN [p |-> ov.p,
                   it |-> [it EXCEPT !.took_first = TRUE,
                                     !.parser = ~ov.val[1].had_eq_sign],
                   ret |-> Ret("Some", 0, ov.val[1].value, <<>>),
                   panic |-> ""]
             ELSE LET r == next_if_normal(ov.p)
                  IN  IF r.panic # ""
                      THEN [p |-> r.p, it |-> it, ret |-> RetNone, panic |-> r.panic]
                      ELSE IF r.val = <<>>
                      THEN [p |-> r.p, it |-> it, ret |-> RetNone,
                            panic |-> "ValuesIter must yield at least one value"]
                      ELSE [p |-> r.p, it |-> [it EXCEPT !.took_first = TRUE],
                            ret |-> Ret("Some", 0, r.val[1], <<>>), panic |-> ""]

\* the cursor's next() that takes "--" for the end of the options
RawArgs_next_interprets_dashes(p) ==
    IF p.source = <<>> THEN Returns(p, RetNone)
    ELSE Returns([p EXCEPT !.source = Tail(p.source),
                           !.state = IF Head(p.source) = <<Dash, Dash>>
                                     THEN FinishedOpts ELSE p.state],
                 Ret("Some", 0, Head(p.source), <<>>))

\* RawArgs::next
RawArgs_next(p) ==
    IF p.source = <<>> THEN Returns(p, RetNone)
    ELSE Returns([p EXCEPT !.source = Tail(p.source)],
                 Ret("Some", 0, Head(p.source), <<>>))

\* peek() that takes the argument it shows
RawArgs_peek_consumes(p) ==
    IF p.source = <<>> THEN Returns(p, RetNone)
    ELSE Returns([p EXCEPT !.source = Tail(p.source)],
                 Ret("Some", 0, Head(p.source), <<>>))

\* RawArgs::peek
RawArgs_peek(p) ==
    IF p.source = <<>> THEN Returns(p, RetNone)
    ELSE Returns(p, Ret("Some", 0, Head(p.source), <<>>))

\* RawArgs::next_if, func(arg) being the caller's answer
RawArgs_next_if(p, func) ==
    IF RawArgs_peek(p).ret.kind = "Some" /\ func THEN RawArgs_next(p)
    ELSE Returns(p, RetNone)

\* RawArgs::as_slice: the remaining arguments, in opt
RawArgs_as_slice(p) == Returns(p, Ret("Slice", 0, <<>>, p.source))

-----------------------------------------------------------------------------
(* The program: a parser built by Parser::from_args and a caller that may  *)
(* call any public operation the borrow checker allows.                    *)

\* the parser as a record
Self == [source |-> source, state |-> state, last_option |-> last_option]

\* Parser::new, for Parser::from_args(args)
Init ==
    /\ source \in Args
    /\ state = StNone
    /\ last_option = LoNone
    /\ iter = NoIter
    /\ panic = ""
    /\ last = [op |-> "new", ret |-> RetNone]
    /\ prev = [source |-> source, state |-> StNone, last_option |-> LoNone]
    /\ exhausted = FALSE

\* a call of op that ended as r = [p, ret, panic]
Called(op, r) ==
    /\ source' = r.p.source
    /\ state' = r.p.state
    /\ last_option' = r.p.last_option
    /\ panic' = r.panic
    /\ last' = [op |-> op, ret |-> r.ret]
    /\ prev' = Self
    /\ exhausted' = (exhausted \/ (last.op = "next" /\ last.ret.kind = "None"))

\* no iterator borrows the parser and the program has not panicked
Free == iter = NoIter /\ panic = ""

CallNext ==
    /\ Free
    /\ Called("next", Parser_next(Self))
    /\ UNCHANGED iter

CallValue ==
    /\ Free
    /\ Called("value", Parser_value(Self))
    /\ UNCHANGED iter

CallOptionalValue ==
    /\ Free
    /\ Called("optional_value", Parser_optional_value(Self))
    /\ UNCHANGED iter

CallValues ==
    /\ Free
    /\ LET r == Parser_values(Self)
       IN  /\ Called("values", r)
           /\ iter' = IF r.ret.kind = "Iter" THEN NewValuesIter ELSE NoIter

StepValuesIter ==
    /\ iter.kind = "values"
    /\ panic = ""
    /\ LET r == ValuesIter_next(iter, Self)
       IN  /\ Called("ValuesIter.next", r)
           /\ iter' = r.it

CallRawArgs ==
    /\ Free
    /\ LET r == Parser_raw_args(Self)
       IN  /\ Called("raw_args", r)
           /\ iter' = IF r.ret.kind = "Iter" THEN NewRawArgs ELSE NoIter

CallTryRawArgs ==
    /\ Free
    /\ LET r == Parser_try_raw_args(Self)
       IN  /\ Called("try_raw_args", r)
           /\ iter' = IF r.ret.kind = "Iter" THEN NewRawArgs ELSE NoIter

StepRawArgs ==
    /\ iter.kind = "raw"
    /\ panic = ""
    /\ Called("RawArgs.next", RawArgs_next(Self))
    /\ UNCHANGED iter

PeekRawArgs ==
    /\ iter.kind = "raw"
    /\ panic = ""
    /\ Called("RawArgs.peek", RawArgs_peek(Self))
    /\ UNCHANGED iter

NextIfRawArgs ==
    /\ iter.kind = "raw"
    /\ panic = ""
    /\ \E func \in BOOLEAN : Called("RawArgs.next_if", RawArgs_next_if(Self, func))
    /\ UNCHANGED iter

AsSliceRawArgs ==
    /\ iter.kind = "raw"
    /\ panic = ""
    /\ Called("RawArgs.as_slice", RawArgs_as_slice(Self))
    /\ UNCHANGED iter

\* the iterator goes out of scope
DropIter ==
    /\ iter # NoIter
    /\ panic = ""
    /\ iter' = NoIter
    /\ UNCHANGED <<source, state, last_option, panic, last, prev, exhausted>>

Next ==
    \/ CallNext
    \/ CallValue
    \/ CallOptionalValue
    \/ CallValues
    \/ StepValuesIter
    \/ CallRawArgs
    \/ CallTryRawArgs
    \/ StepRawArgs
    \/ PeekRawArgs
    \/ NextIfRawArgs
    \/ AsSliceRawArgs
    \/ DropIter

Spec == Init /\ [][Next]_vars

-----------------------------------------------------------------------------
(* Vocabulary of the properties *)

\* the result of the last operation
ret == last.ret

\* p is partway through an argument: a joined value or unread cluster text
Partway(p) ==
    \/ p.state.tag = "PendingValue"
    \/ p.state.tag = "Shorts" /\ p.state.pos < Len(p.state.arg)

\* what is left to hand out: every byte and every element of the sequence,
\* and the pending value or the unread text of the cluster
RECURSIVE SourceSize(_)
SourceSize(src) ==
    IF src = <<>> THEN 0 ELSE Len(Head(src)) + 1 + SourceSize(Tail(src))

Size(p) ==
    SourceSize(p.source)
    + (IF p.state.tag = "PendingValue" THEN Len(p.state.arg) + 1
       ELSE IF p.state.tag = "Shorts" THEN Len(p.state.arg) - p.state.pos
       ELSE 0)

\* the last operation handed out a token, a value or an error of next()
Produced ==
    \/ last.op = "next" /\ ret.kind # "None"
    \/ last.op = "value" /\ ret.kind = "Ok"
    \/ last.op = "optional_value" /\ ret.kind = "Some"
    \/ last.op = "ValuesIter.next" /\ ret.kind = "Some"
    \/ last.op = "RawArgs.next" /\ ret.kind = "Some"
    \/ last.op = "RawArgs.next_if" /\ ret.kind = "Some"
    \/ last.op = "raw_args" /\ ret.kind = "UnexpectedValue"

IsError == ret.kind \in {"UnexpectedValue", "MissingValue"}

DashDash == <<Dash, Dash>>

\* an element next() reads as an option when options are not finished
FlagLike(arg) == Len(arg) > 1 /\ arg[1] = Dash /\ arg # DashDash

-----------------------------------------------------------------------------
(* C1 *)

\* C1: no operation panics or makes more left to hand out, and every
\* operation that hands out a token, a value or an error of next() leaves
\* strictly less: the number of such operations is at most the size of the
\* input (its bytes plus its elements), after which next() returns None.
C1_Terminates ==
    /\ panic = ""
    /\ Size(Self) <= Size(prev)
    /\ Produced => Size(Self) < Size(prev)
    /\ Size(Self) = 0 => Parser_next(Self).ret.kind = "None"

\* next() has met an undecodable byte in a cluster and gone on
C1_Witness ==
    /\ last.op = "next"
    /\ prev.state.tag = "Shorts"
    /\ ret = ArgShort(ReplacementChar)
    /\ Size(Self) < Size(prev)

-----------------------------------------------------------------------------
(* C2 *)

\* C2: once next() has returned None, every later next() returns None,
\* whatever was called in between (exhausted: a call of next() before the
\* last operation returned None).
C2_NoneForever ==
    (exhausted /\ last.op = "next") => ret.kind = "None"

\* next() has been called again after an earlier call returned None
C2_Witness ==
    /\ exhausted
    /\ last.op = "next"
    /\ ret.kind = "None"

-----------------------------------------------------------------------------
(* C3 *)

\* C3: no sequence of operations reaches a panic.
C3_NoPanic == panic = ""

\* the unwraps that build UnexpectedValue in the cluster branch have run
C3_Witness ==
    /\ last.op = "next"
    /\ prev.state.tag = "Shorts"
    /\ ret.kind = "UnexpectedValue"
    /\ panic = ""

-----------------------------------------------------------------------------
(* C4 *)

\* C4: after an operation returned an error the program has not panicked and
\* nothing was added to the sequence; after an error of next() or raw_args()
\* the parser is not partway through an argument, try_raw_args() returns
\* Some and no element was removed; and the next() that follows an error of
\* next() does not fail again: it returns None if the sequence is empty and
\* takes the next element otherwise.
C4_UsableAfterError ==
    IsError =>
        /\ panic = ""
        /\ Size(Self) <= Size(prev)
        /\ last.op \in {"next", "raw_args"} =>
              /\ ~Partway(Self)
              /\ Parser_try_raw_args(Self).ret.kind = "Iter"
              /\ source = prev.source
        /\ last.op = "next" =>
              LET r == Parser_next(Self)
              IN  /\ r.panic = ""
                  /\ ~(r.ret.kind \in {"UnexpectedValue", "MissingValue"})
                  /\ IF source = <<>> THEN r.ret.kind = "None"
                     ELSE Len(r.p.source) < Len(source)

\* next() has failed on a pending value with an element left in the sequence
C4_Witness ==
    /\ last.op = "next"
    /\ prev.state.tag = "PendingValue"
    /\ ret.kind = "UnexpectedValue"
    /\ source # <<>>

-----------------------------------------------------------------------------
(* C5 *)

\* the unread text of the cluster p is in
Remainder(p) == From(p.state.arg, p.state.pos)

\* C5 as stated: value() returns a pending joined value if there is one;
\* otherwise, if unread text remains in the cluster, that remainder; in both
\* cases no element is removed; only otherwise does it take the next element.
C5_AsStated ==
    last.op = "value" =>
        IF prev.state.tag = "PendingValue"
        THEN ret = Ret("Ok", 0, prev.state.arg, <<>>) /\ source = prev.source
        ELSE IF Partway(prev)
        THEN ret = Ret("Ok", 0, Remainder(prev), <<>>) /\ source = prev.source
        ELSE IF prev.source # <<>>
        THEN ret = Ret("Ok", 0, Head(prev.source), <<>>)
             /\ source = Tail(prev.source)
        ELSE ret.kind = "MissingValue" /\ source = prev.source

\* C5, amended: as C5_AsStated, but the remainder of the cluster is returned
\* without its leading "=" when it starts with one.
C5_ValueOrder ==
    last.op = "value" =>
        IF prev.state.tag = "PendingValue"
        THEN ret = Ret("Ok", 0, prev.state.arg, <<>>) /\ source = prev.source
        ELSE IF Partway(prev)
        THEN /\ ret = Ret("Ok", 0,
                          IF Head(Remainder(prev)) = EqSign
                          THEN Tail(Remainder(prev)) ELSE Remainder(prev),
                          <<>>)
             /\ source = prev.source
        ELSE IF prev.source # <<>>
        THEN ret = Ret("Ok", 0, Head(prev.source), <<>>)
             /\ source = Tail(prev.source)
        ELSE ret.kind = "MissingValue" /\ source = prev.source

\* value() has returned the rest of a cluster with an element left untaken
C5_Witness ==
    /\ last.op = "value"
    /\ prev.state.tag = "Shorts"
    /\ Partway(prev)
    /\ Head(Remainder(prev)) = EqSign
    /\ ret.kind = "Ok"
    /\ source # <<>>
    /\ source = prev.source

-----------------------------------------------------------------------------
(* C6 *)

\* C6: value() fails (with MissingValue) exactly when nothing is pending and
\* the sequence is empty; after a failing value() the cursor is None or
\* FinishedOpts, the sequence is empty and next() returns None.
C6_MissingValue ==
    last.op = "value" =>
        /\ ret.kind \in {"Ok", "MissingValue"}
        /\ ret.kind = "MissingValue" <=> (~Partway(prev) /\ prev.source = <<>>)
        /\ ret.kind = "MissingValue" =>
              /\ state.tag \in {"None", "FinishedOpts"}
              /\ source = <<>>
              /\ Parser_next(Self).ret.kind = "None"

\* value() has failed where the cursor stood at the end of a cluster
C6_Witness ==
    /\ last.op = "value"
    /\ ret.kind = "MissingValue"
    /\ prev.state.tag = "Shorts"
    /\ state = StNone

-----------------------------------------------------------------------------
(* C7 *)

\* C7: with nothing pending value() removes the next element and returns it
\* unchanged, whatever its shape; the element is not interpreted: the cursor
\* becomes None (FinishedOpts only if it was FinishedOpts before), also when
\* the element is "--", the last option is kept, and a flag-like element
\* that follows is still returned as an option by next().
C7_ValueTakesVerbatim ==
    (last.op = "value" /\ ~Partway(prev) /\ prev.source # <<>>) =>
        /\ ret = Ret("Ok", 0, Head(prev.source), <<>>)
        /\ source = Tail(prev.source)
        /\ last_option = prev.last_option
        /\ state = IF prev.state.tag = "FinishedOpts" THEN FinishedOpts ELSE StNone
        /\ (state = StNone /\ source # <<>> /\ FlagLike(Head(source))) =>
              Parser_next(Self).ret.kind \in {"Short", "Long"}

\* value() has taken "--" with options not finished and a flag-like element next
C7_Witness ==
    /\ last.op = "value"
    /\ ~Partway(prev)
    /\ prev.state.tag # "FinishedOpts"
    /\ prev.source # <<>>
    /\ Head(prev.source) = DashDash
    /\ ret.str = DashDash
    /\ source # <<>>
    /\ FlagLike(Head(source))

-----------------------------------------------------------------------------
(* C8 *)

\* C8: optional_value() removes no element; it returns Some exactly when a
\* joined value is pending or unread text remains in the cluster; when it
\* returns None the cursor is None, or FinishedOpts if it was FinishedOpts.
C8_OptionalValueFrame ==
    last.op = "optional_value" =>
        /\ source = prev.source
        /\ ret.kind \in {"Some", "None"}
        /\ ret.kind = "Some" <=> Partway(prev)
        /\ ret.kind = "None" =>
              state = IF prev.state.tag = "FinishedOpts" THEN FinishedOpts ELSE StNone

\* optional_value() has returned None after "--", elements remaining
C8_Witness ==
    /\ last.op = "optional_value"
    /\ ret.kind = "None"
    /\ prev.state.tag = "FinishedOpts"
    /\ source # <<>>

-----------------------------------------------------------------------------
(* C9 *)

\* C9: when next() returns Long(name) and leaves a value pending, the value
\* is the text after an "=" of the element and the last option is "--name";
\* a next() called with the value still pending fails with UnexpectedValue
\* carrying "--name" and exactly that value, leaves the cursor None and
\* removes no element; the next() after that returns None if the sequence is
\* empty and takes the following element otherwise.
C9_UnexpectedValue ==
    /\ (last.op = "next" /\ ret.kind = "Long") =>
          /\ last_option = LoLong(DashDash \o ret.str)
          /\ state.tag = "PendingValue" =>
                LET arg == Head(prev.source)
                    ind == Len(arg) - Len(state.arg)
                IN  /\ prev.source # <<>>
                    /\ source = Tail(prev.source)
                    /\ ind >= 3
                    /\ arg[ind] = EqSign
                    /\ From(arg, ind) = state.arg
    /\ state.tag = "PendingValue" => last_option.tag = "Long"
    /\ (last.op = "next" /\ prev.state.tag = "PendingValue") =>
          /\ ret = UnexpectedValue(prev.last_option.name, prev.state.arg)
          /\ starts_with(ret.opt[1], DashDash)
          /\ state = StNone
          /\ source = prev.source
          /\ LET r == Parser_next(Self)
             IN  IF source = <<>> THEN r.ret.kind = "None"
                 ELSE /\ r.ret.kind \in {"Short", "Long", "Value", "None"}
                      /\ Len(r.p.source) < Len(source)

\* next() has failed on the value of "--a=b=" with an element left
C9_Witness ==
    /\ last.op = "next"
    /\ prev.state.tag = "PendingValue"
    /\ ret = UnexpectedValue(<<45, 45, 97>>, <<98, 61>>)
    /\ source # <<>>

-----------------------------------------------------------------------------
(* C10 *)

\* next() reads a new element: the cursor is None or at the end of a cluster
AtElement(p) ==
    \/ p.state.tag = "None"
    \/ p.state.tag = "Shorts" /\ p.state.pos >= Len(p.state.arg)

\* C10 as stated: next() never returns the element "--" as a token.
C10_AsStated ==
    last.op = "next" => ~(ret.kind = "Value" /\ ret.str = DashDash)

\* C10, amended: while options are not finished next() does not return the
\* element "--": on meeting it, it makes the cursor FinishedOpts and returns
\* in the same call the element after it as a Value, unchanged, or None at
\* exhaustion. An element "--" met once the cursor is FinishedOpts is returned
\* as a Value like any other.
C10_DashDash ==
    /\ (last.op = "next" /\ AtElement(prev) /\ prev.source # <<>>
            /\ Head(prev.source) = DashDash) =>
          /\ state = FinishedOpts
          /\ IF Len(prev.source) = 1
             THEN ret = RetNone /\ source = <<>>
             ELSE /\ ret = ArgValue(prev.source[2])
                  /\ source = Tail(Tail(prev.source))
    /\ (last.op = "next" /\ ret.kind = "Value" /\ ret.str = DashDash) =>
          /\ state = FinishedOpts
          /\ \/ prev.state = FinishedOpts /\ Head(prev.source) = DashDash
             \/ /\ AtElement(prev)
                /\ Len(prev.source) >= 2
                /\ prev.source[1] = DashDash
                /\ prev.source[2] = DashDash

\* next() has met "--" with options not finished and returned what follows
C10_Witness ==
    /\ last.op = "next"
    /\ prev.state.tag = "Shorts"
    /\ AtElement(prev)
    /\ Len(prev.source) >= 2
    /\ Head(prev.source) = DashDash
    /\ ret.kind = "Value"
    /\ FlagLike(ret.str)
    /\ state = FinishedOpts

-----------------------------------------------------------------------------
(* C11 *)

\* C11: once the cursor is FinishedOpts every operation leaves it
\* FinishedOpts, and next() then removes the first remaining element and
\* returns it unchanged as a Value, whatever its shape, or returns None when
\* nothing remains; it returns no Short, no Long and no error.
C11_FinishedAbsorbing ==
    prev.state = FinishedOpts =>
        /\ state = FinishedOpts
        /\ last.op = "next" =>
              IF prev.source = <<>>
              THEN ret = RetNone /\ source = <<>>
              ELSE ret = ArgValue(Head(prev.source)) /\ source = Tail(prev.source)

\* with options finished next() has returned an element shaped like a long
\* option with a joined value
C11_Witness ==
    /\ prev.state = FinishedOpts
    /\ last.op = "next"
    /\ ret.kind = "Value"
    /\ starts_with(ret.str, DashDash)
    /\ position(ret.str, EqSign) # <<>>
    /\ state = FinishedOpts

-----------------------------------------------------------------------------
(* C12 *)

\* C12: a next() that reads a new element classifies it by the first rule
\* that applies: "--" makes the cursor FinishedOpts; an element that starts
\* with "--" gives a Long; an element that starts with "-" and is longer than
\* one byte starts a cluster, the call returning its first Short; any other
\* element, "-" and the empty string included, is returned unchanged as a
\* Value and the cursor is None. In each case the element is removed.
C12_Classify ==
    (last.op = "next" /\ AtElement(prev) /\ prev.source # <<>>) =>
        LET arg == Head(prev.source)
        IN  IF arg = DashDash
            THEN state = FinishedOpts /\ ret.kind \in {"Value", "None"}
            ELSE IF starts_with(arg, DashDash)
            THEN /\ ret.kind = "Long"
                 /\ state.tag \in {"None", "PendingValue"}
                 /\ source = Tail(prev.source)
            ELSE IF Len(arg) > 1 /\ arg[1] = Dash
            THEN /\ ret.kind = "Short"
                 /\ source = Tail(prev.source)
                 /\ \/ state = Shorts(arg, 1 + len_utf8(ret.ch))
                    \/ state = StNone /\ ret.ch = ReplacementChar
            ELSE /\ ret = ArgValue(arg)
                 /\ state = StNone
                 /\ source = Tail(prev.source)

\* next() has read a lone "-" with the cursor None and returned it as a Value
C12_Witness ==
    /\ last.op = "next"
    /\ prev.state = StNone
    /\ prev.source # <<>>
    /\ Head(prev.source) = <<Dash>>
    /\ ret = ArgValue(<<Dash>>)
    /\ state = StNone

-----------------------------------------------------------------------------
(* C13 *)

\* the place of the first "=" of arg, counted from 1; Len(arg) + 1 if none
FirstEq(arg) ==
    IF \E i \in 1..Len(arg) : arg[i] = EqSign
    THEN CHOOSE i \in 1..Len(arg) :
            arg[i] = EqSign /\ \A j \in 1..(i - 1) : arg[j] # EqSign
    ELSE Len(arg) + 1

\* C13: when next() reads a new element that starts with "--" and is not
\* "--" itself, it returns Long(name), name being the text between the two
\* dashes and the first "=", or the end of the element if it has no "=" (the
\* text as a string: an undecodable byte reads as U+FFFD); with an "=" the
\* cursor becomes PendingValue with all that follows the first "=", further
\* "=" included, unchanged; without one the cursor is None. The name may be
\* empty.
C13_LongOption ==
    (last.op = "next" /\ AtElement(prev) /\ prev.source # <<>>
        /\ starts_with(Head(prev.source), DashDash)
        /\ Head(prev.source) # DashDash) =>
        LET arg == Head(prev.source)
            n == FirstEq(arg)
        IN  /\ ret = ArgLong(to_string_lossy(SubSeq(arg, 3, n - 1)))
            /\ state = IF n <= Len(arg)
                       THEN PendingValue(SubSeq(arg, n + 1, Len(arg)))
                       ELSE StNone
            /\ source = Tail(prev.source)

\* next() has read "--a=b=": Long("a"), and "b=" is pending
C13_Witness ==
    /\ last.op = "next"
    /\ AtElement(prev)
    /\ ret = ArgLong(<<97>>)
    /\ state = PendingValue(<<98, EqSign>>)

-----------------------------------------------------------------------------
(* C14 *)

\* arg is "-c1...cn", n >= 1, of decodable characters with no "=" after c1
GoodCluster(arg) ==
    /\ Len(arg) > 1
    /\ arg[1] = Dash
    /\ arg[2] # Dash
    /\ valid_up_to(From(arg, 1)) = Len(arg) - 1
    /\ \A i \in 3..Len(arg) : arg[i] # EqSign

\* the characters c1...cn of such an element
ClusterChars(arg) == to_string_lossy(From(arg, 1))

\* the number of characters that start in bytes 2..pos of arg
CharsBefore(arg, pos) == Cardinality({i \in 2..pos : ~IsCont(arg[i])})

\* C14: for an element "-c1...cn" of decodable characters with no "=" after
\* c1, the next() that reads the element returns Short(c1), and each next()
\* called with k - 1 < n characters of it read returns Short(ck), leaves k
\* characters read and removes no further element; the next() called with all
\* n read moves on: it returns None if the sequence is empty and otherwise
\* takes the following element. A "-" among c2...cn is returned as Short('-').
C14_ClusterInOrder ==
    /\ (last.op = "next" /\ AtElement(prev) /\ prev.source # <<>>
            /\ GoodCluster(Head(prev.source))) =>
          LET arg == Head(prev.source)
              c1 == ClusterChars(arg)[1]
          IN  /\ ret = ArgShort(c1)
              /\ state = Shorts(arg, 1 + len_utf8(c1))
              /\ source = Tail(prev.source)
    /\ (last.op = "next" /\ prev.state.tag = "Shorts"
            /\ GoodCluster(prev.state.arg)) =>
          LET arg == prev.state.arg
              k == CharsBefore(arg, prev.state.pos) + 1
              cs == ClusterChars(arg)
          IN  IF k <= Len(cs)
              THEN /\ ret = ArgShort(cs[k])
                   /\ state.tag = "Shorts"
                   /\ state.arg = arg
                   /\ CharsBefore(arg, state.pos) = k
                   /\ state.pos = prev.state.pos + len_utf8(cs[k])
                   /\ source = prev.source
              ELSE IF prev.source = <<>>
              THEN ret = RetNone /\ state = StNone
              ELSE /\ ret.kind \in {"Short", "Long", "Value", "None"}
                   /\ Len(source) < Len(prev.source)
                   /\ ret.kind = "None" => Head(prev.source) = DashDash

\* next() has returned the last character of "-µb", after the two-byte µ
C14_Witness ==
    /\ last.op = "next"
    /\ prev.state = Shorts(<<45, 194, 181, 98>>, 3)
    /\ ret = ArgShort(98)
    /\ state = Shorts(<<45, 194, 181, 98>>, 4)

-----------------------------------------------------------------------------
(* C15 *)

\* c is the character of arg that ends at byte pos
CharEndsAt(arg, pos, c) ==
    \E n \in 1..4 :
        /\ pos - n >= 1
        /\ Utf8CharLen(SubSeq(arg, pos - n + 1, pos)) = n
        /\ CodePoint(SubSeq(arg, pos - n + 1, pos), n) = c

\* C15: the next() that reads an element "-=..." returns Short('=') and
\* stays in the cluster after it; a next() called in a cluster whose next
\* unread character is "=" fails with UnexpectedValue, the option being "-c"
\* for the character c that ends just before that "=", the value being the
\* text after that "=", unchanged; it leaves the cursor None and removes no
\* element, and the next() after it returns None if the sequence is empty
\* and takes the following element otherwise.
C15_EqualsInCluster ==
    /\ (last.op = "next" /\ AtElement(prev) /\ prev.source # <<>>
            /\ Len(Head(prev.source)) > 1
            /\ Head(prev.source)[1] = Dash
            /\ Head(prev.source)[2] = EqSign) =>
          /\ ret = ArgShort(EqSign)
          /\ state = Shorts(Head(prev.source), 2)
    /\ (last.op = "next" /\ prev.state.tag = "Shorts"
            /\ prev.state.pos < Len(prev.state.arg)
            /\ prev.state.arg[prev.state.pos + 1] = EqSign) =>
          LET arg == prev.state.arg
              pos == prev.state.pos
          IN  /\ ret.kind = "UnexpectedValue"
              /\ Len(ret.opt[1]) = 2
              /\ ret.opt[1][1] = Dash
              /\ CharEndsAt(arg, pos, ret.opt[1][2])
              /\ ret.str = SubSeq(arg, pos + 2, Len(arg))
              /\ state = StNone
              /\ source = prev.source
              /\ LET r == Parser_next(Self)
                 IN  IF source = <<>> THEN r.ret = RetNone
                     ELSE /\ r.ret.kind \in {"Short", "Long", "Value", "None"}
                          /\ Len(r.p.source) < Len(source)

\* next() has failed at the first "=" of "-a==b", an element following
C15_Witness ==
    /\ last.op = "next"
    /\ prev.state = Shorts(<<Dash, 97, EqSign, EqSign, 98>>, 2)
    /\ ret = UnexpectedValue(<<Dash, 97>>, <<EqSign, 98>>)
    /\ state = StNone
    /\ source # <<>>

-----------------------------------------------------------------------------
(* C16 *)

\* the unread text of the cluster of p starts with no decodable character
MeetsInvalid(p) ==
    /\ p.state.tag = "Shorts"
    /\ p.state.pos < Len(p.state.arg)
    /\ Utf8CharLen(From(p.state.arg, p.state.pos)) = 0

\* C16 as stated: a next() that meets an undecodable unit in a cluster returns
\* Short(U+FFFD) and leaves the cursor in the cluster just after the
\* malformed unit, the characters after it still to be read.
C16_AsStated ==
    (last.op = "next" /\ MeetsInvalid(prev)) =>
        /\ ret = ArgShort(ReplacementChar)
        /\ state = Shorts(prev.state.arg,
                          prev.state.pos + InvalidLen(Remainder(prev)))

\* C16, amended: a next() that meets an undecodable unit in a cluster returns
\* one Short(U+FFFD), makes U+FFFD the last option and leaves the cluster:
\* the cursor is None, no element is removed, and the rest of the element,
\* the characters after the malformed unit included, is dropped: nothing is
\* pending, so optional_value() returns None and no later call reads it.
C16_SkipsRest ==
    (last.op = "next" /\ MeetsInvalid(prev)) =>
        /\ ret = ArgShort(ReplacementChar)
        /\ last_option = LoShort(ReplacementChar)
        /\ state = StNone
        /\ source = prev.source
        /\ ~Partway(Self)
        /\ Parser_optional_value(Self).ret = RetNone
        /\ Size(Self) = Size(prev) - Len(Remainder(prev))

\* next() has met the undecodable byte of "-a@b", a "b" following it
C16_Witness ==
    /\ last.op = "next"
    /\ MeetsInvalid(prev)
    /\ Len(Remainder(prev)) > InvalidLen(Remainder(prev))
    /\ prev.state.arg[Len(prev.state.arg)] = 98
    /\ ret = ArgShort(ReplacementChar)
    /\ state = StNone

-----------------------------------------------------------------------------
(* C17 *)

\* C17: a next() that meets an undecodable unit in a cluster returns
\* Short(U+FFFD) once for all the rest of the element: that same call leaves
\* the cursor None and removes no element, and the next() after it returns
\* None if the sequence is empty and otherwise takes the following element,
\* whose token it returns.
C17_OneReplacement ==
    (last.op = "next" /\ MeetsInvalid(prev)) =>
        /\ ret = ArgShort(ReplacementChar)
        /\ state = StNone
        /\ source = prev.source
        /\ LET r == Parser_next(Self)
           IN  IF source = <<>> THEN r.ret = RetNone /\ r.p.state = StNone
               ELSE /\ Len(r.p.source) < Len(source)
                    /\ r.ret.kind \in {"Short", "Long", "Value", "None"}
                    /\ r.ret.kind = "None" => Head(source) = DashDash
                    /\ r.ret.kind = "Short" =>
                          /\ FlagLike(Head(source))
                          /\ r.p.state \in {StNone,
                                Shorts(Head(source), 1 + len_utf8(r.ret.ch))}

\* the next() after the Short(U+FFFD) of a cluster has returned the element
\* that follows the cluster
C17_Witness ==
    /\ last.op = "next"
    /\ prev.state = StNone
    /\ prev.last_option = LoShort(ReplacementChar)
    /\ prev.source # <<>>
    /\ ret = ArgValue(Head(prev.source))
    /\ last_option = LoShort(ReplacementChar)

-----------------------------------------------------------------------------
(* C18 *)

\* arg does not start with a dash, or is exactly "-"
Plain(arg) == At(arg, 1) # Dash \/ arg = <<Dash>>

\* the longest prefix of src made of such elements
RECURSIVE PlainRun(_)
PlainRun(src) ==
    IF src = <<>> \/ ~Plain(Head(src)) THEN <<>>
    ELSE <<Head(src)>> \o PlainRun(Tail(src))

\* a value joined with "=" is attached to the last option of p
EqJoined(p) ==
    \/ p.state.tag = "PendingValue"
    \/ /\ p.state.tag = "Shorts"
       /\ p.state.pos < Len(p.state.arg)
       /\ p.state.arg[p.state.pos + 1] = EqSign

\* the iterator it stepped until it ends: [vals, p], the values it yields
\* in order and the parser it leaves
RECURSIVE Drain(_, _)
Drain(it, p) ==
    LET r == ValuesIter_next(it, p)
    IN  IF r.panic # "" \/ r.ret.kind # "Some"
        THEN [vals |-> <<>>, p |-> r.p]
        ELSE LET d == Drain(r.it, r.p)
             IN  [vals |-> <<r.ret.str>> \o d.vals, p |-> d.p]

\* the iterator of values() is alive and not capped by a value joined with "="
RunOpen ==
    /\ iter.kind = "values"
    /\ iter.parser
    /\ panic = ""
    /\ ~EqJoined(Self)

\* the unread text of the cluster, which the first step of the iterator yields
FirstOfRun ==
    IF ~iter.took_first /\ Partway(Self) THEN <<Remainder(Self)>> ELSE <<>>

\* the iterator, stepped to its end, yields FirstOfRun and then run, a prefix
\* of the sequence, removes exactly run, and leaves what stopped it to next()
YieldsRun(run) ==
    LET d == Drain(iter, Self)
        n == Parser_next(d.p)
    IN  /\ d.vals = FirstOfRun \o run
        /\ d.p.source = From(source, Len(run))
        /\ ~Partway(d.p)
        /\ IF d.p.source = <<>> THEN n.ret = RetNone
           ELSE /\ Len(n.p.source) < Len(d.p.source)
                /\ FlagLike(Head(d.p.source)) => n.ret.kind \in {"Short", "Long"}
                /\ Head(d.p.source) = DashDash => n.p.state = FinishedOpts

\* C18 as stated: with no value joined with "=", the iterator yields the
\* unread text of the cluster, if any, then the longest run of following
\* elements that do not start with a dash or are "-", and no more.
C18_AsStated == RunOpen => YieldsRun(PlainRun(source))

\* C18, amended: with no value joined with "=" and options not finished, the
\* iterator yields the unread text of the cluster, if any, then the longest
\* run of following elements that do not start with a dash or are "-"; it
\* ends before the first option-like element, before "--" or at exhaustion,
\* and the element that ends it stays in the sequence for next() to read.
\* Once options are finished the iterator yields every remaining element.
C18_ValuesRun ==
    RunOpen => YieldsRun(IF state = FinishedOpts THEN source ELSE PlainRun(source))

\* after a short option the iterator has yielded and then ended before an
\* option, which remains
C18_Witness ==
    /\ last.op = "ValuesIter.next"
    /\ last_option.tag = "Short"
    /\ ret = RetNone
    /\ iter.took_first
    /\ iter.parser
    /\ state = StNone
    /\ source = prev.source
    /\ source # <<>>
    /\ FlagLike(Head(source))

-----------------------------------------------------------------------------
(* C19 *)

\* the value joined with "=" to the last option of p
JoinedValue(p) ==
    IF p.state.tag = "PendingValue" THEN p.state.arg
    ELSE SubSeq(p.state.arg, p.state.pos + 2, Len(p.state.arg))

\* C19: when the value of the last option was joined with "=", after a long
\* option or in a cluster, the iterator of values() yields that value and
\* nothing else: it removes no element and leaves the cursor None, so that
\* next() returns a plain element that follows as a Value; once it has
\* yielded the joined value every further step returns None and changes
\* nothing. Unread cluster text that does not start with "=" does not end
\* the iterator: a plain element that follows is yielded after it.
C19_EqualsCaps ==
    /\ (iter.kind = "values" /\ ~iter.took_first /\ panic = "" /\ EqJoined(Self)) =>
          LET d == Drain(iter, Self)
              n == Parser_next(d.p)
          IN  /\ d.vals = <<JoinedValue(Self)>>
              /\ d.p.source = source
              /\ d.p.state = StNone
              /\ (source # <<>> /\ Plain(Head(source))) =>
                    /\ n.ret = ArgValue(Head(source))
                    /\ n.p.source = Tail(source)
    /\ (iter.kind = "values" /\ ~iter.parser /\ panic = "") =>
          /\ iter.took_first
          /\ ValuesIter_next(iter, Self) =
                [p |-> Self, it |-> iter, ret |-> RetNone, panic |-> ""]
    /\ (iter.kind = "values" /\ ~iter.took_first /\ panic = ""
            /\ Partway(Self) /\ ~EqJoined(Self)) =>
          LET r == ValuesIter_next(iter, Self)
              d == Drain(iter, Self)
          IN  /\ r.ret = Ret("Some", 0, Remainder(Self), <<>>)
              /\ r.it.parser
              /\ (source # <<>> /\ Plain(Head(source))) =>
                    /\ Len(d.vals) >= 2
                    /\ d.vals[2] = Head(source)

\* the iterator has yielded the value joined with "=" to the short option a
\* and then ended with a plain element next in the sequence, left there
C19_Witness ==
    /\ last.op = "ValuesIter.next"
    /\ ret = RetNone
    /\ iter.took_first
    /\ ~iter.parser
    /\ last_option = LoShort(97)
    /\ state = StNone
    /\ source = prev.source
    /\ source # <<>>
    /\ Plain(Head(source))

-----------------------------------------------------------------------------
(* C20 *)

\* C20: values() itself changes nothing of the parser, and dropping its
\* iterator changes nothing either: value() and next() called after it give
\* what they would have given before it. A step of the iterator that yields
\* a value consumes exactly that value, what was pending or else the first
\* element of the sequence; a step that yields nothing consumes nothing.
C20_ValuesNotEager ==
    /\ last.op = "values" =>
          /\ Self = prev
          /\ Parser_value(Self) = Parser_value(prev)
          /\ Parser_next(Self) = Parser_next(prev)
    /\ (last.op = "ValuesIter.next" /\ ret.kind = "Some") =>
          IF Partway(prev)
          THEN /\ source = prev.source
               /\ ~Partway(Self)
               /\ ret.str = Parser_value(prev).ret.str
          ELSE /\ prev.source # <<>>
               /\ source = Tail(prev.source)
               /\ ret.str = Head(prev.source)
               /\ ~Partway(Self)
    /\ (last.op = "ValuesIter.next" /\ ret.kind # "Some") =>
          ret = RetNone /\ Self = prev

\* values() has returned an iterator with unread cluster text pending and
\* the iterator has been dropped unused
C20_Witness ==
    /\ last.op = "values"
    /\ ret.kind = "Iter"
    /\ iter = NoIter
    /\ state.tag = "Shorts"
    /\ Partway(Self)
    /\ source # <<>>

-----------------------------------------------------------------------------
(* C21 *)

\* C21: when values() returns an iterator, the first step of the iterator
\* yields a value (it does not panic for want of one), so the iterator
\* stepped to its end yields at least one value, and it leaves nothing
\* pending: no joined value and no unread cluster text. An iterator returns
\* None only after it has yielded, and then nothing is pending.
C21_AtLeastOne ==
    /\ (last.op = "values" /\ ret.kind = "Iter" /\ iter = NewValuesIter) =>
          LET r == ValuesIter_next(iter, Self)
              d == Drain(iter, Self)
          IN  /\ r.panic = ""
              /\ r.ret.kind = "Some"
              /\ Len(d.vals) >= 1
              /\ ~Partway(d.p)
    /\ last.op = "ValuesIter.next" =>
          /\ panic = ""
          /\ ~Partway(Self)
          /\ iter.kind = "values" => iter.took_first

\* the iterator has yielded and been stepped to the end of the sequence
C21_Witness ==
    /\ last.op = "ValuesIter.next"
    /\ ret = RetNone
    /\ iter.took_first
    /\ iter.parser
    /\ source = <<>>
    /\ ~Partway(Self)
    /\ last_option.tag = "Long"

-----------------------------------------------------------------------------
(* C22 *)

\* C22: values() fails, with MissingValue, exactly when nothing is pending
\* and either the sequence is empty or options are not finished and the
\* next element starts with a dash and is not "-"; otherwise it returns an
\* iterator. A values() that fails leaves the parser as it was, so the
\* next() after it reads the element that made it fail: a Short or a Long
\* for an option, and the end of the options for "--".
C22_ValuesFails ==
    last.op = "values" =>
        /\ ret.kind \in {"Iter", "MissingValue"}
        /\ ret.kind = "MissingValue" <=>
              /\ ~Partway(prev)
              /\ \/ prev.source = <<>>
                 \/ /\ prev.state # FinishedOpts
                    /\ At(Head(prev.source), 1) = Dash
                    /\ Head(prev.source) # <<Dash>>
        /\ ret.kind = "MissingValue" =>
              /\ Self = prev
              /\ iter = NoIter
              /\ LET n == Parser_next(Self)
                 IN  IF source = <<>> THEN n.ret = RetNone
                     ELSE /\ Len(n.p.source) < Len(source)
                          /\ FlagLike(Head(source)) => n.ret.kind \in {"Short", "Long"}
                          /\ Head(source) = DashDash => n.p.state = FinishedOpts

\* values() has failed at the end of a cluster, before an option that remains
C22_Witness ==
    /\ last.op = "values"
    /\ ret.kind = "MissingValue"
    /\ state.tag = "Shorts"
    /\ ret.opt = << <<Dash, last_option.ch>> >>
    /\ source # <<>>
    /\ FlagLike(Head(source))

-----------------------------------------------------------------------------
(* C23 *)

\* what is left of the argument p is partway through, as a value: the
\* pending value, or the unread text of the cluster less one leading "="
Leftover(p) ==
    IF EqJoined(p) THEN JoinedValue(p) ELSE Remainder(p)

\* C23: raw_args() fails, with UnexpectedValue, exactly when a joined value
\* is pending or unread text remains in the cluster, and otherwise returns
\* the cursor on the arguments. The error carries that leftover and the last
\* option; the failing call consumes the leftover and nothing else, the
\* cursor being None after it, so that a raw_args() called next succeeds.
C23_RawArgsFails ==
    last.op = "raw_args" =>
        /\ ret.kind \in {"Iter", "UnexpectedValue"}
        /\ ret.kind = "UnexpectedValue" <=> Partway(prev)
        /\ ret.kind = "UnexpectedValue" =>
              /\ ret.str = Leftover(prev)
              /\ ret.opt = format_last_option(prev)
              /\ last_option = prev.last_option
              /\ source = prev.source
              /\ state = StNone
              /\ iter = NoIter
              /\ Parser_raw_args(Self).ret.kind = "Iter"
              /\ Parser_raw_args(Self).p = Self

\* raw_args() has failed on the unread text of a cluster, elements remaining
C23_Witness ==
    /\ last.op = "raw_args"
    /\ ret.kind = "UnexpectedValue"
    /\ prev.state.tag = "Shorts"
    /\ ret.str = Remainder(prev)
    /\ ret.str # <<>>
    /\ source # <<>>

-----------------------------------------------------------------------------
(* C24 *)

\* C24: in every state try_raw_args() returns None exactly when
\* optional_value() would return Some, and else the cursor on the arguments;
\* it changes nothing of the parser, so after a refusal value() and
\* optional_value() still return the leftover. With an empty sequence and
\* nothing pending it returns the cursor, which is empty, and not None.
C24_TryRawArgs ==
    /\ panic = "" =>
          LET t == Parser_try_raw_args(Self)
              o == Parser_optional_value(Self)
          IN  /\ t.ret.kind \in {"None", "Iter"}
              /\ o.ret.kind \in {"None", "Some"}
              /\ t.ret.kind = "None" <=> o.ret.kind = "Some"
              /\ t.p = Self
              /\ t.panic = ""
              /\ t.ret.kind = "None" =>
                    /\ Parser_value(t.p).ret = Ret("Ok", 0, Leftover(Self), <<>>)
                    /\ Parser_optional_value(t.p).ret = Ret("Some", 0, Leftover(Self), <<>>)
              /\ (source = <<>> /\ ~Partway(Self)) =>
                    /\ t.ret.kind = "Iter"
                    /\ RawArgs_next(t.p).ret = RetNone
    /\ last.op = "try_raw_args" =>
          /\ Self = prev
          /\ ret.kind = "None" <=> Partway(prev)
          /\ ret.kind = "None" => iter = NoIter

\* try_raw_args() has refused with unread cluster text, which stays pending
C24_Witness ==
    /\ last.op = "try_raw_args"
    /\ ret.kind = "None"
    /\ state.tag = "Shorts"
    /\ Partway(Self)
    /\ iter = NoIter

-----------------------------------------------------------------------------
(* C25 *)

\* C25: peek() and as_slice() show the first and all of the remaining
\* elements and change nothing; next_if() with a predicate that answers false
\* returns None and changes nothing. A step of the cursor that returns an
\* element removes that one, the first, and leaves the others in their order;
\* no operation of the cursor touches the state of the parser, which is not
\* partway through an argument, so that once the cursor is dropped next()
\* starts at the first element that was not consumed.
C25_RawCursorFrame ==
    /\ last.op = "RawArgs.peek" =>
          /\ Self = prev
          /\ ret = IF source = <<>> THEN RetNone
                   ELSE Ret("Some", 0, Head(source), <<>>)
    /\ last.op = "RawArgs.as_slice" =>
          /\ Self = prev
          /\ ret.opt = source
    /\ (iter.kind = "raw" /\ panic = "") =>
          /\ RawArgs_next_if(Self, FALSE) = Returns(Self, RetNone)
          /\ ~Partway(Self)
          /\ LET n == Parser_next(Self)
             IN  IF source = <<>> THEN n.ret = RetNone
                 ELSE /\ Len(n.p.source) < Len(source)
                      /\ n.ret.kind \in {"Short", "Long", "Value", "None"}
                      /\ n.ret.kind = "Value" =>
                            \/ n.ret.str = Head(source)
                            \/ /\ Head(source) = DashDash
                               /\ n.ret.str = source[2]
    /\ last.op \in {"RawArgs.next", "RawArgs.next_if"} =>
          /\ state = prev.state
          /\ last_option = prev.last_option
          /\ IF ret.kind = "Some"
             THEN /\ prev.source # <<>>
                  /\ ret.str = Head(prev.source)
                  /\ source = Tail(prev.source)
             ELSE ret = RetNone /\ source = prev.source

\* as_slice() has shown two elements or more and the cursor has been
\* dropped, the elements still in the sequence
C25_Witness ==
    /\ last.op = "RawArgs.as_slice"
    /\ iter = NoIter
    /\ Len(ret.opt) >= 2
    /\ source = ret.opt
    /\ FlagLike(Head(source))

-----------------------------------------------------------------------------
(* C26 *)

\* the cursor on the arguments of p stepped until it ends: [vals, p]
RECURSIVE DrainRaw(_)
DrainRaw(p) ==
    LET r == RawArgs_next(p)
    IN  IF r.ret.kind # "Some" THEN [vals |-> <<>>, p |-> r.p]
        ELSE LET d == DrainRaw(r.p)
             IN  [vals |-> <<r.ret.str>> \o d.vals, p |-> d.p]

\* C26: the cursor that raw_args() or try_raw_args() returns yields the
\* remaining elements, all of them, in order and unchanged, options and "--"
\* included, and leaves the state of the parser as it was: a "--" taken
\* through the cursor does not finish the options, and the next() after it
\* still reads an option-like element as an option.
C26_RawVerbatim ==
    /\ (iter.kind = "raw" /\ panic = "") =>
          LET d == DrainRaw(Self)
          IN  /\ d.vals = source
              /\ d.p = [Self EXCEPT !.source = <<>>]
    /\ (last.op \in {"raw_args", "try_raw_args"} /\ ret.kind = "Iter") =>
          /\ source = prev.source
          /\ state = IF prev.state.tag = "Shorts" /\ last.op = "raw_args"
                     THEN StNone ELSE prev.state
    /\ (last.op \in {"RawArgs.next", "RawArgs.next_if"} /\ ret.kind = "Some") =>
          /\ ret.str = Head(prev.source)
          /\ state = prev.state
          /\ (ret.str = DashDash /\ prev.state # FinishedOpts) =>
                /\ state # FinishedOpts
                /\ (source # <<>> /\ FlagLike(Head(source))) =>
                      Parser_next(Self).ret.kind \in {"Short", "Long"}

\* the cursor has yielded "--" with options not finished, an option following
C26_Witness ==
    /\ last.op = "RawArgs.next"
    /\ ret = Ret("Some", 0, DashDash, <<>>)
    /\ state # FinishedOpts
    /\ source # <<>>
    /\ FlagLike(Head(source))

-----------------------------------------------------------------------------
(* C27 *)

\* the option last_option stands for, as an error carries it
Formatted(lo) ==
    IF lo.tag = "None" THEN <<>>
    ELSE IF lo.tag = "Short" THEN << <<Dash, lo.ch>> >>
    ELSE << DashDash \o From(lo.name, 2) >>

\* C27: the last option is none at construction, becomes the option of every
\* Short or Long that next() returns, and is changed by nothing else: not by
\* a next() that returns a Value, None or an error, and not by value(),
\* optional_value(), values(), raw_args(), try_raw_args() or a step of their
\* iterators. A MissingValue from value() or values() carries it, as "-c" for
\* a Short and "--name" for a Long, and carries no option when there is none.
C27_MissingValueOption ==
    /\ last.op = "new" => last_option = LoNone
    /\ IF last.op = "next" /\ ret.kind = "Short"
       THEN last_option = LoShort(ret.ch)
       ELSE IF last.op = "next" /\ ret.kind = "Long"
       THEN last_option = LoLong(DashDash \o ret.str)
       ELSE last_option = prev.last_option
    /\ (last.op \in {"value", "values"} /\ ret.kind = "MissingValue") =>
          ret.opt = Formatted(prev.last_option)
    /\ (last.op \in {"value", "values"} /\ ret.kind = "MissingValue"
            /\ prev.last_option.tag = "Short") =>
          ret.opt = << <<Dash, prev.last_option.ch>> >>
    /\ (last.op \in {"value", "values"} /\ ret.kind = "MissingValue"
            /\ prev.last_option.tag = "None") =>
          ret.opt = <<>>

\* next() has returned a Value after a long option, and value() called now
\* would fail with that option
C27_Witness ==
    /\ last.op = "next"
    /\ ret.kind = "Value"
    /\ last_option.tag = "Long"
    /\ source = <<>>
    /\ Parser_value(Self).ret = MissingValue(<<DashDash \o From(last_option.name, 2)>>)

-----------------------------------------------------------------------------
(* C28 *)

\* C28 as stated: value() called with the cursor Shorts returns the text of
\* the element from the offset on, empty or not, and removes no element.
C28_AsStated ==
    (last.op = "value" /\ prev.state.tag = "Shorts") =>
        /\ ret = Ret("Ok", 0, Remainder(prev), <<>>)
        /\ source = prev.source

\* C28, amended: value() called with unread text left in the cluster returns
\* that text, less one leading "=", and removes no element, even when what
\* it returns is empty ("-a="); the cursor is None after it. Called with the
\* cluster read to its end, value() removes and returns the next element of
\* the sequence, and fails with MissingValue when there is none.
C28_ValueInCluster ==
    (last.op = "value" /\ prev.state.tag = "Shorts") =>
        /\ state = StNone
        /\ IF prev.state.pos < Len(prev.state.arg)
           THEN /\ ret = Ret("Ok", 0, Leftover(prev), <<>>)
                /\ source = prev.source
           ELSE IF prev.source # <<>>
           THEN /\ ret = Ret("Ok", 0, Head(prev.source), <<>>)
                /\ source = Tail(prev.source)
           ELSE /\ ret = MissingValue(Formatted(prev.last_option))
                /\ source = <<>>

\* value() has returned the empty value of "-a=" and left the next element
C28_Witness ==
    /\ last.op = "value"
    /\ prev.state.tag = "Shorts"
    /\ Remainder(prev) = <<EqSign>>
    /\ ret = Ret("Ok", 0, <<>>, <<>>)
    /\ source = prev.source
    /\ source # <<>>

-----------------------------------------------------------------------------
(* C29 *)

\* value() called on p again and again until it fails: [vals, p, ret], the
\* values returned in order, the parser left and the failure
RECURSIVE DrainValue(_)
DrainValue(p) ==
    LET r == Parser_value(p)
    IN  IF r.ret.kind # "Ok" THEN [vals |-> <<>>, p |-> r.p, ret |-> r.ret]
        ELSE LET d == DrainValue(r.p)
             IN  [vals |-> <<r.ret.str>> \o d.vals, p |-> d.p, ret |-> d.ret]

\* C29: when next() returns a Value nothing is pending, no joined value and
\* no unread cluster text, so value() called again and again from there
\* returns the remaining elements of the sequence, all of them, in order and
\* unchanged, and nothing else, and then fails with MissingValue.
C29_ValuesAfterValue ==
    (last.op = "next" /\ ret.kind = "Value") =>
        /\ state \in {StNone, FinishedOpts}
        /\ ~Partway(Self)
        /\ LET d == DrainValue(Self)
           IN  /\ d.vals = source
               /\ d.p.source = <<>>
               /\ d.p.state = state
               /\ d.ret = MissingValue(Formatted(last_option))

\* next() has returned a Value after a long option, an option following
C29_Witness ==
    /\ last.op = "next"
    /\ ret.kind = "Value"
    /\ state = StNone
    /\ last_option.tag = "Long"
    /\ source # <<>>
    /\ FlagLike(Head(source))

-----------------------------------------------------------------------------
(* C30 *)

\* the number of elements the last operation removed
Removed == Len(prev.source) - Len(source)

\* C30: the sequence is the one given at construction to begin with, and
\* every operation leaves a suffix of the sequence it found: it removes
\* elements from the front only, two at most, and puts none back, so the
\* sequence is always a suffix of the one given at construction. An element
\* removed is the one handed out, or the one the cursor now decomposes, or
\* "--"; what is handed out is gone: the operation leaves less than it found.
C30_SourceSuffix ==
    /\ last.op = "new" => source = prev.source
    /\ Removed \in 0..2
    /\ source = From(prev.source, Removed)
    /\ Removed = 2 =>
          /\ last.op = "next"
          /\ Head(prev.source) = DashDash
          /\ ret = ArgValue(prev.source[2])
    /\ Removed = 1 =>
          LET arg == Head(prev.source)
          IN  \/ /\ last.op = "next"
                 /\ \/ ret = ArgValue(arg)
                    \/ ret.kind = "Long" /\ starts_with(arg, DashDash)
                    \/ ret.kind = "Short" /\ state \in {StNone} \cup
                                                {Shorts(arg, i) : i \in 2..Len(arg)}
                    \/ ret = RetNone /\ arg = DashDash /\ state = FinishedOpts
              \/ /\ last.op \in {"value", "ValuesIter.next", "RawArgs.next",
                                 "RawArgs.next_if"}
                 /\ ret.kind \in {"Ok", "Some"}
                 /\ ret.str = arg
    /\ Produced => Size(Self) < Size(prev)

\* value() has removed and returned the first of two equal elements
C30_Witness ==
    /\ last.op = "value"
    /\ Removed = 1
    /\ ret.str = Head(prev.source)
    /\ source # <<>>
    /\ Head(source) = Head(prev.source)
    /\ FlagLike(Head(source))

-----------------------------------------------------------------------------
(* C31 *)

\* last options to put in the place of the parser's own: none, "-x", "--x"
OtherOptions == {LoNone, LoShort(120), LoLong(<<Dash, Dash, 120>>)}

\* lo can be the last option of a parser in the state of p: a pending value
\* comes with a long option and a cluster with a short one
Fits(lo, p) ==
    /\ p.state.tag = "PendingValue" => lo.tag = "Long"
    /\ p.state.tag = "Shorts" => lo.tag = "Short"

\* the outcomes r of an operation on p and r2 of the same operation on p with
\* lo for last option are the same but for the option the two parsers keep
\* and the option an error names
SameBut(r, r2, p, lo) ==
    /\ r2.panic = r.panic
    /\ r2.ret.kind = r.ret.kind
    /\ r2.ret.ch = r.ret.ch
    /\ r2.ret.str = r.ret.str
    /\ r.ret.kind \notin {"UnexpectedValue", "MissingValue"} => r2.ret.opt = r.ret.opt
    /\ r2.p.source = r.p.source
    /\ r2.p.state = r.p.state
    /\ \/ r2.p.last_option = r.p.last_option
       \/ r.p.last_option = p.last_option /\ r2.p.last_option = lo

\* the outcome of the parser's operation op on p
Outcome(op, p) ==
    IF op = "next" THEN Parser_next(p)
    ELSE IF op = "value" THEN Parser_value(p)
    ELSE IF op = "optional_value" THEN Parser_optional_value(p)
    ELSE IF op = "values" THEN Parser_values(p)
    ELSE IF op = "raw_args" THEN Parser_raw_args(p)
    ELSE Parser_try_raw_args(p)

\* C31: the last option has no part in parsing. Put another last option in
\* the place of the parser's own, one a parser in that state can have: every
\* operation, a step of an iterator included, then returns the same token or
\* value, succeeds or fails alike, and leaves the same cursor and the same
\* sequence; the two outcomes differ at most in the option an error names,
\* and the two parsers after it again differ at most in their last option.
C31_LastOptionInert ==
    /\ last.op \in {"next", "value", "optional_value", "values", "raw_args",
                    "try_raw_args"} =>
          \A lo \in OtherOptions :
              Fits(lo, prev) =>
                  SameBut([p |-> Self, ret |-> ret, panic |-> panic],
                          Outcome(last.op, [prev EXCEPT !.last_option = lo]),
                          prev, lo)
    /\ (iter.kind = "values" /\ panic = "") =>
          \A lo \in OtherOptions :
              Fits(lo, Self) =>
                  LET r == ValuesIter_next(iter, Self)
                      r2 == ValuesIter_next(iter, [Self EXCEPT !.last_option = lo])
                  IN  SameBut(r, r2, Self, lo) /\ r2.it = r.it
    /\ last.op \in {"RawArgs.next", "RawArgs.next_if", "RawArgs.peek",
                    "RawArgs.as_slice"} =>
          last_option = prev.last_option

\* value() has failed naming a short option; with no last option it fails
\* alike and names none
C31_Witness ==
    /\ last.op = "value"
    /\ ret.kind = "MissingValue"
    /\ prev.last_option.tag = "Short"
    /\ Parser_value([prev EXCEPT !.last_option = LoNone]).ret = MissingValue(<<>>)
    /\ ret # MissingValue(<<>>)


-----------------------------------------------------------------------------
(* C32 *)

\* C32: whenever the parser is in a cluster between two operations, the
\* offset is at least 2 and at most the length of the element, a complete
\* decodable character of the element ends just before it, and the byte at
\* it, if there is one, is not a continuation byte of that character.
C32_OffsetInCluster ==
    state.tag = "Shorts" =>
        /\ state.pos >= 2
        /\ 0 < state.pos /\ state.pos <= Len(state.arg)
        /\ \E n \in 1..4 :
              /\ state.pos - n >= 1
              /\ Utf8CharLen(SubSeq(state.arg, state.pos - n + 1, state.pos)) = n
        /\ state.pos < Len(state.arg) => ~IsCont(state.arg[state.pos + 1])

\* the two-byte character of "-µb" has been read: the offset is past both
\* of its bytes
C32_Witness ==
    /\ last.op = "next"
    /\ state = Shorts(<<45, 194, 181, 98>>, 3)
    /\ prev.state.tag = "None"


-----------------------------------------------------------------------------
(* C33 *)

\* the parser is in a cluster it has read to the end
ClusterRead(p) == p.state.tag = "Shorts" /\ p.state.pos = Len(p.state.arg)

\* two cursors that are the same, or a cluster read to the end and None
Equivalent(p, q) ==
    \/ p.state = q.state
    \/ ClusterRead(p) /\ q.state = StNone
    \/ p.state = StNone /\ ClusterRead(q)

\* C33: a parser that has returned the last character of a cluster stays in
\* the cluster, with the offset at the length of the element, and behaves as
\* a parser whose cursor is None: every operation called on it, a step of a
\* values() iterator included, returns what it returns on the parser with
\* None in the place of the cursor, leaves the same sequence and the same
\* last option, and leaves a cursor that is the same or again a cluster read
\* to the end against None.
C33_ClusterReadIsIdle ==
    /\ (ClusterRead(prev)
          /\ last.op \in {"next", "value", "optional_value", "values",
                          "raw_args", "try_raw_args"}) =>
          LET r == Outcome(last.op, [prev EXCEPT !.state = StNone])
          IN  /\ r.ret = ret
              /\ r.panic = panic
              /\ r.p.source = source
              /\ r.p.last_option = last_option
              /\ Equivalent(Self, r.p)
    /\ (ClusterRead(Self) /\ iter.kind = "values" /\ panic = "") =>
          LET r == ValuesIter_next(iter, Self)
              r2 == ValuesIter_next(iter, [Self EXCEPT !.state = StNone])
          IN  /\ r2.ret = r.ret
              /\ r2.panic = r.panic
              /\ r2.it = r.it
              /\ r2.p.source = r.p.source
              /\ r2.p.last_option = r.p.last_option
              /\ Equivalent(r.p, r2.p)
    /\ last.op \in {"RawArgs.next", "RawArgs.next_if", "RawArgs.peek",
                    "RawArgs.as_slice"} => state = prev.state

\* the last character of a cluster has been returned and the parser is still
\* in the cluster; values() then succeeds on the element that follows, as it
\* does from None, and leaves the parser in the cluster
C33_Witness ==
    /\ ClusterRead(prev)
    /\ prev.source # <<>>
    /\ last.op = "values"
    /\ ret.kind = "Iter"
    /\ ClusterRead(Self)


-----------------------------------------------------------------------------
(* C34 *)

\* C34: when next() returns None the sequence is empty and the cursor is
\* None or FinishedOpts; the call was made with no value pending and no
\* unread text in a cluster, and with no element to return: the sequence
\* was empty, or its only element was a "--" that ends the options.
C34_NoneAtTheEnd ==
    (last.op = "next" /\ ret.kind = "None") =>
        /\ source = <<>>
        /\ state \in {StNone, FinishedOpts}
        /\ ~Partway(prev)
        /\ \/ prev.source = <<>>
           \/ prev.source = <<DashDash>> /\ prev.state.tag # "FinishedOpts"

\* next() has taken the "--" that was the last element and returned None
C34_Witness ==
    /\ last.op = "next"
    /\ ret.kind = "None"
    /\ prev.source = <<DashDash>>
    /\ state = FinishedOpts
    /\ source = <<>>


-----------------------------------------------------------------------------
(* C35 *)

\* C35: once options are finished, values() succeeds whenever an element is
\* left, and its iterator, stepped to its end, yields every element that is
\* left, in order, those that start with a dash and those equal to "--"
\* among them, and leaves the sequence empty and the options finished.
C35_ValuesWhenFinished ==
    (state = FinishedOpts /\ source # <<>> /\ iter = NoIter /\ panic = "") =>
        LET v == Parser_values(Self)
            d == Drain(NewValuesIter, v.p)
        IN  /\ v.panic = ""
            /\ v.ret.kind = "Iter"
            /\ v.p = Self
            /\ d.vals = source
            /\ d.p.source = <<>>
            /\ d.p.state = FinishedOpts

\* with options finished, an iterator of values() has yielded a "--"
C35_Witness ==
    /\ last.op = "ValuesIter.next"
    /\ prev.state = FinishedOpts
    /\ ret = Ret("Some", 0, DashDash, <<>>)
    /\ Head(prev.source) = DashDash


-----------------------------------------------------------------------------
(* C36 *)

\* the number of elements of src before its first "--", Len(src) if none
RECURSIVE BeforeDashes(_)
BeforeDashes(src) ==
    IF src = <<>> \/ Head(src) = DashDash THEN 0
    ELSE 1 + BeforeDashes(Tail(src))

\* C36: with options not finished, a "--" is to values() what an option is.
\* An iterator of values(), stepped to its end, removes no "--" and nothing
\* after the first "--", and does not finish the options. values() called
\* with nothing pending and "--" the next element fails with MissingValue
\* and changes nothing; the next() after it removes the "--" and finishes
\* the options.
C36_ValuesStopsAtDashes ==
    /\ (iter.kind = "values" /\ panic = "" /\ state # FinishedOpts) =>
          LET d == Drain(iter, Self)
          IN  /\ d.p.state # FinishedOpts
              /\ Len(source) - Len(d.p.source) <= BeforeDashes(source)
    /\ (iter = NoIter /\ panic = "" /\ state # FinishedOpts /\ ~Partway(Self)
          /\ source # <<>> /\ Head(source) = DashDash) =>
          LET v == Parser_values(Self)
              n == Parser_next(v.p)
          IN  /\ v.ret = MissingValue(format_last_option(Self))
              /\ v.p = Self
              /\ n.p.state = FinishedOpts
              /\ n.p.source = IF Len(source) = 1 THEN <<>> ELSE From(source, 2)

\* values() has failed at a "--" and has left it in the sequence, options
\* not finished
C36_Witness ==
    /\ last.op = "values"
    /\ ret.kind = "MissingValue"
    /\ prev.state # FinishedOpts
    /\ prev.source # <<>>
    /\ Head(prev.source) = DashDash
    /\ Self = prev


-----------------------------------------------------------------------------
(* C37 *)

\* C37: value() and optional_value(), called with unread text in a cluster,
\* return that text without its first byte when that byte is "=" and whole
\* otherwise, so that "==b" gives "=b" and "=" gives the empty value; they
\* remove no element and leave the cursor None.
C37_StripsOneEq ==
    (last.op \in {"value", "optional_value"}
        /\ prev.state.tag = "Shorts" /\ prev.state.pos < Len(prev.state.arg)) =>
        LET rem == Remainder(prev)
        IN  /\ ret.kind = IF last.op = "value" THEN "Ok" ELSE "Some"
            /\ ret.str = IF Head(rem) = EqSign THEN Tail(rem) ELSE rem
            /\ source = prev.source
            /\ state = StNone

\* value() has returned "=b" for the "==b" that follows the a of "-a==b"
C37_Witness ==
    /\ last.op = "value"
    /\ prev.state = Shorts(<<45, 97, 61, 61, 98>>, 2)
    /\ ret = Ret("Ok", 0, <<61, 98>>, <<>>)
    /\ state = StNone


-----------------------------------------------------------------------------
(* C38 *)

\* the next unread character of the cluster is "="
AtEq(p) ==
    /\ p.state.tag = "Shorts"
    /\ p.state.pos < Len(p.state.arg)
    /\ p.state.arg[p.state.pos + 1] = EqSign

\* C38: a next() that fails was called with a joined value pending or with
\* "=" the next unread character of the cluster, never with the cursor None
\* or FinishedOpts or in a cluster read to the end, whatever the next
\* element; it leaves the cursor None, so the next() called directly after
\* it does not fail.
C38_NextFailsOnlyPending ==
    (last.op = "next" /\ IsError) =>
        /\ prev.state.tag = "PendingValue" \/ AtEq(prev)
        /\ ret.kind = "UnexpectedValue"
        /\ state = StNone
        /\ Parser_next(Self).ret.kind \notin {"UnexpectedValue", "MissingValue", "panic"}

\* next() has failed at the "=" of a cluster with an element left, which the
\* next() after it reads
C38_Witness ==
    /\ last.op = "next"
    /\ ret.kind = "UnexpectedValue"
    /\ AtEq(prev)
    /\ source # <<>>
    /\ Parser_next(Self).ret.kind \in {"Short", "Long", "Value"}


-----------------------------------------------------------------------------
(* C39 *)

\* the bounds start..end of a slice of arg pass the assertions of the slicer
SliceAllowed(arg, start, end) ==
    /\ start <= end
    /\ end <= Len(arg)
    /\ is_valid_boundary(arg, start)
    /\ is_valid_boundary(arg, end)

\* next() slices the long option arg at its first "=", if it has one, into
\* ..ind and ind + 1.., and both slices are allowed
LongSlicesAllowed(arg) ==
    LET ind == position(arg, EqSign)
    IN  ind # <<>> =>
            /\ SliceAllowed(arg, ind[1] + 1, Len(arg))
            /\ SliceAllowed(arg, 0, ind[1])

\* elements "--x=y" with x and y of at most two bytes, some undecodable
LongShapes ==
    LET Bytes == {97, 181, 194, 255}
        Parts == {<<>>} \cup {<<a>> : a \in Bytes}
                        \cup {<<a, b>> : a \in Bytes, b \in Bytes}
    IN  {<<Dash, Dash>> \o x \o <<EqSign>> \o y : x \in Parts, y \in Parts}

\* C39: every bound the parser passes to slice_encoded_bytes is a valid
\* boundary there. In a cluster with unread text the slice taken is pos..,
\* with pos past the "=" when the text starts with one; for a long option
\* with "=" at index ind the slices are ..ind and ind + 1.. . The long
\* option is the next element whenever next() can read one, and the same
\* holds of long options with undecodable bytes on either side of the "=".
C39_BoundariesValid ==
    /\ (state.tag = "Shorts" /\ state.pos < Len(state.arg)) =>
          LET pos == IF state.arg[state.pos + 1] = EqSign
                     THEN state.pos + 1 ELSE state.pos
          IN  SliceAllowed(state.arg, pos, Len(state.arg))
    /\ (state # FinishedOpts /\ source # <<>>
          /\ starts_with(Head(source), DashDash)) =>
          LongSlicesAllowed(Head(source))
    /\ last.op = "new" /\ source = <<>> =>
          \A arg \in LongShapes :
              /\ LongSlicesAllowed(arg)
              /\ LET r == Parser_next([Self EXCEPT !.source = <<arg>>])
                     ind == position(arg, EqSign)[1]
                 IN  r.p.state = PendingValue(From(arg, ind + 1))

\* value() has taken the text "@b" of "-a@b", from an offset that is a
\* boundary only by the character a before it
C39_Witness ==
    /\ last.op = "value"
    /\ prev.state = Shorts(<<45, 97, 255, 98>>, 2)
    /\ ret = Ret("Ok", 0, <<255, 98>>, <<>>)
    /\ valid_up_to(<<255, 98>>) = 0
    /\ is_valid_boundary(prev.state.arg, 2)


-----------------------------------------------------------------------------
(* C40 *)

\* lo is the option of the cursor st: the long option that was joined to the
\* pending value in element, or the character that ends just before the
\* offset of the cluster
OptionOf(lo, st, element) ==
    /\ st.tag = "PendingValue" =>
          LET ind == position(element, EqSign)
          IN  /\ starts_with(element, DashDash)
              /\ ind # <<>>
              /\ lo = LoLong(to_string_lossy(Upto(element, ind[1])))
              /\ st.arg = From(element, ind[1] + 1)
    /\ st.tag = "Shorts" =>
          /\ lo.tag = "Short"
          /\ CharEndsAt(st.arg, st.pos, lo.ch)

\* C40: between operations, a parser with a value pending has for last
\* option the long option of the element that carried the value, and a
\* parser in a cluster has the character that ends just before the offset.
\* The cursor and the last option are set together by the next() that reads
\* the element and kept together by every other operation. So an
\* UnexpectedValue of next() or raw_args() carries the option the value was
\* joined to, "--name" or "-c", and the value.
C40_LastOptionOfCursor ==
    /\ state.tag \in {"PendingValue", "Shorts"} =>
          IF last.op = "next" /\ Partway(prev)
          THEN /\ state.tag = "Shorts"
               /\ state.arg = prev.state.arg
               /\ state.pos > prev.state.pos
               /\ source = prev.source
               /\ OptionOf(last_option, state, <<>>)
          ELSE IF last.op = "next"
          THEN /\ prev.source # <<>>
               /\ source = Tail(prev.source)
               /\ state.tag = "Shorts" => state.arg = Head(prev.source)
               /\ OptionOf(last_option, state, Head(prev.source))
          ELSE /\ state = prev.state
               /\ last_option = prev.last_option
               /\ state.tag = "PendingValue" => last_option.tag = "Long"
               /\ state.tag = "Shorts" => OptionOf(last_option, state, <<>>)
    /\ (last.op \in {"next", "raw_args"} /\ ret.kind = "UnexpectedValue") =>
          /\ Partway(prev)
          /\ ret.opt = format_last_option(prev)
          /\ prev.state.tag = "PendingValue" =>
                /\ ret.str = prev.state.arg
                /\ prev.last_option.tag = "Long"
                /\ ret.opt = << prev.last_option.name >>
          /\ prev.state.tag = "Shorts" =>
                /\ \E c \in {prev.last_option.ch} :
                       /\ CharEndsAt(prev.state.arg, prev.state.pos, c)
                       /\ ret.opt = << <<Dash, c>> >>
                /\ ret.str = LET rem == Remainder(prev)
                             IN  IF Head(rem) = EqSign THEN Tail(rem) ELSE rem

\* raw_args() has failed on the value that "--a=b=" left pending, naming --a
C40_Witness ==
    /\ last.op = "raw_args"
    /\ prev.state = PendingValue(<<98, 61>>)
    /\ ret = UnexpectedValue(<<45, 45, 97>>, <<98, 61>>)

====
